---- MODULE Spec2Model ----
(***************************************************************************)
(* A model of the SPTK drawing tools (src/draw): the binary sample reader  *)
(* of sptk/draw_utils.py (read_binary, read_stdin, asarray and the static  *)
(* type tables) and the input handling of the tools' main() functions.     *)
(*                                                                         *)
(* Bytes are the naturals 0..255.  A scalar value is kept in a form that   *)
(* does not depend on its width: an integer is a sign and the bits of its  *)
(* magnitude, a float is its class, sign, unbiased exponent and the bits   *)
(* of its fraction.  Decoding computes that value from the bytes, bit by   *)
(* bit, as struct.unpack does.                                             *)
(***************************************************************************)
EXTENDS Integers, Sequences, FiniteSets, TLC

\* Bounds of the model.
MaxLen == 18
MaxDim == 2
MaxScalars == 3

VARIABLES
    byteorder,    \* sys.byteorder of the host: struct's native order
    func,         \* the reader running: "read_binary" | "read_stdin" | "none"
    dtype,        \* the reader's dtype argument (a type code)
    dim,          \* the reader's dim argument
    filename,     \* read_binary's filename argument ("None" for read_stdin)
    stream,       \* the bytes of the source being read
    origin,       \* the scalars the stream was packed from, when it was
    pos,          \* read cursor: bytes of the stream consumed so far
    data,         \* the list of tuples accumulated by the loop
    nreads,       \* number of read() calls made by this reader call
    lastReq,      \* size asked of the latest read()
    lastGot,      \* length of the chunk the latest read() returned
    dropped,      \* the chunk discarded on struct.error
    rpc,          \* reader position: "idle" | "open" | "loop" | "asarray" | "done" | "raised"
    result,       \* the array returned
    exc,          \* the exception raised and not caught ("none")
    tool,         \* the tool running ("none": a reader is called directly)
    args,         \* the parsed command line
    fileKind,     \* the file system: path -> "missing" | "file" | "dir" | "noperm"
    fileBytes,    \* the file system: path -> the bytes of the file
    stdinBytes,   \* the bytes standard input delivers
    stdinPiped,   \* whether standard input is a pipe (not a terminal)
    argv,         \* the words of the command line after the program name
    tpc,          \* tool position: "none" | "parse" | "main" | "reading" | "drawn" | "exit"
    idx,          \* gpolezero: index of the input file being processed
    opened,       \* paths handed to open(), in order
    readFrom,     \* sources a reader was called on, in order
    traces,       \* traces added to the figure
    stderr,       \* what was printed to the error stream
    exit_status,  \* the exit status of the process; -1 while it runs
    image         \* whether write_image wrote the output file

readerVars == <<func, dtype, dim, filename, stream, origin, pos, data, nreads,
                lastReq, lastGot, dropped, rpc, result, exc>>
envVars == <<byteorder, fileKind, fileBytes, stdinBytes, stdinPiped, argv>>
toolVars == <<tool, args, tpc, idx, readFrom, traces, stderr, exit_status, image>>
vars == <<readerVars, envVars, toolVars, opened>>

----------------------------------------------------------------------------
(* Static tables of sptk/draw_utils.py *)

TypeCodes == {"c", "C", "s", "S", "i", "I", "l", "L", "f", "d"}

\* the keys of the two tables
sptk2numpy_keys == {"c", "C", "s", "S", "i", "I", "l", "L", "f", "d"}
sptk2struct_keys == {"c", "C", "s", "S", "i", "I", "l", "L", "f", "d"}

sptk2numpy_typo(code) ==
    CASE code = "c" -> "int8"    [] code = "C" -> "int8"
      [] code = "s" -> "int16"   [] code = "S" -> "uint16"
      [] code = "i" -> "int32"   [] code = "I" -> "uint32"
      [] code = "l" -> "int64"   [] code = "L" -> "uint64"
      [] code = "f" -> "float32" [] code = "d" -> "float64"

sptk2numpy(code) ==
    CASE code = "c" -> "int8"    [] code = "C" -> "uint8"
      [] code = "s" -> "int16"   [] code = "S" -> "uint16"
      [] code = "i" -> "int32"   [] code = "I" -> "uint32"
      [] code = "l" -> "int64"   [] code = "L" -> "uint64"
      [] code = "f" -> "float32" [] code = "d" -> "float64"

sptk2struct_typo(code) ==
    CASE code = "c" -> [format_char |-> "b", byte_size |-> 1]
      [] code = "C" -> [format_char |-> "B", byte_size |-> 1]
      [] code = "s" -> [format_char |-> "h", byte_size |-> 2]
      [] code = "S" -> [format_char |-> "H", byte_size |-> 2]
      [] code = "i" -> [format_char |-> "i", byte_size |-> 4]
      [] code = "I" -> [format_char |-> "I", byte_size |-> 4]
      [] code = "l" -> [format_char |-> "q", byte_size |-> 8]
      [] code = "L" -> [format_char |-> "Q", byte_size |-> 8]
      [] code = "f" -> [format_char |-> "f", byte_size |-> 8]
      [] code = "d" -> [format_char |-> "d", byte_size |-> 8]

sptk2struct(code) ==
    CASE code = "c" -> [format_char |-> "b", byte_size |-> 1]
      [] code = "C" -> [format_char |-> "B", byte_size |-> 1]
      [] code = "s" -> [format_char |-> "h", byte_size |-> 2]
      [] code = "S" -> [format_char |-> "H", byte_size |-> 2]
      [] code = "i" -> [format_char |-> "i", byte_size |-> 4]
      [] code = "I" -> [format_char |-> "I", byte_size |-> 4]
      [] code = "l" -> [format_char |-> "q", byte_size |-> 8]
      [] code = "L" -> [format_char |-> "Q", byte_size |-> 8]
      [] code = "f" -> [format_char |-> "f", byte_size |-> 4]
      [] code = "d" -> [format_char |-> "d", byte_size |-> 8]

----------------------------------------------------------------------------
(* Bits *)

Reverse(s) == [i \in 1..Len(s) |-> s[Len(s) + 1 - i]]

ByteBits(b) == [i \in 1..8 |-> (b \div (2 ^ (8 - i))) % 2]

RECURSIVE BitsOf(_)
BitsOf(bytes) ==
    IF bytes = <<>> THEN <<>> ELSE ByteBits(Head(bytes)) \o BitsOf(Tail(bytes))

RECURSIVE BitsToNat(_)
BitsToNat(bits) ==
    IF bits = <<>> THEN 0
    ELSE 2 * BitsToNat(SubSeq(bits, 1, Len(bits) - 1)) + bits[Len(bits)]

BitsToBytes(bits) ==
    [i \in 1..(Len(bits) \div 8) |-> BitsToNat(SubSeq(bits, 8 * (i - 1) + 1, 8 * i))]

RECURSIVE StripLeading(_)
StripLeading(bits) ==
    IF bits # <<>> /\ Head(bits) = 0 THEN StripLeading(Tail(bits)) ELSE bits

StripTrailing(bits) == Reverse(StripLeading(Reverse(bits)))

Zeros(n) == [i \in 1..n |-> 0]
Ones(n) == [i \in 1..n |-> 1]
PadLeft(bits, n) == Zeros(n - Len(bits)) \o bits
PadRight(bits, n) == bits \o Zeros(n - Len(bits))

Invert(bits) == [i \in 1..Len(bits) |-> 1 - bits[i]]

\* bits + 1 modulo 2^Len(bits)
Increment(bits) ==
    LET n == Len(bits)
        zs == {i \in 1..n : bits[i] = 0}
    IN  IF zs = {} THEN Zeros(n)
        ELSE LET p == CHOOSE i \in zs : \A j \in zs : j <= i
             IN  [i \in 1..n |-> IF i < p THEN bits[i] ELSE IF i = p THEN 1 ELSE 0]

FirstOne(bits) == CHOOSE i \in 1..Len(bits) : bits[i] = 1 /\ \A j \in 1..(i - 1) : bits[j] = 0

----------------------------------------------------------------------------
(* Scalar values *)

IntVal(sign, mag) == [k |-> "int", sign |-> sign, e |-> 0, m |-> mag]
FloatVal(k, sign, e, frac) == [k |-> k, sign |-> sign, e |-> e, m |-> frac]

\* The Python int a two's complement (signed) or plain (unsigned) field holds;
\* be: the bytes, most significant first.
UnpackInt(signed, be) ==
    LET bits == BitsOf(be)
    IN  IF signed /\ bits[1] = 1
        THEN IntVal(1, StripLeading(Increment(Invert(bits))))
        ELSE IntVal(0, StripLeading(bits))

\* The Python float an IEEE 754 binary field holds (ebits exponent bits).
UnpackFloat(ebits, be) ==
    LET bits == BitsOf(be)
        s == bits[1]
        expo == BitsToNat(SubSeq(bits, 2, 1 + ebits))
        frac == SubSeq(bits, 2 + ebits, Len(bits))
        bias == 2 ^ (ebits - 1) - 1
    IN  IF expo = 0
        THEN IF StripLeading(frac) = <<>>
             THEN FloatVal("fzero", s, 0, <<>>)
             ELSE LET p == FirstOne(frac)
                  IN  FloatVal("fnum", s, 1 - bias - p,
                               StripTrailing(SubSeq(frac, p + 1, Len(frac))))
        ELSE IF expo = 2 ^ ebits - 1
        THEN IF StripLeading(frac) = <<>>
             THEN FloatVal("finf", s, 0, <<>>)
             ELSE FloatVal("fnan", s, 0, StripTrailing(frac))
        ELSE FloatVal("fnum", s, expo - bias, StripTrailing(frac))

PackInt(size, v) ==
    LET padded == PadLeft(v.m, 8 * size)
    IN  BitsToBytes(IF v.sign = 1 THEN Increment(Invert(padded)) ELSE padded)

RECURSIVE NatBits(_)
NatBits(n) == IF n = 0 THEN <<>> ELSE NatBits(n \div 2) \o <<n % 2>>

PackFloat(ebits, size, v) ==
    LET fbits == 8 * size - 1 - ebits
        bias == 2 ^ (ebits - 1) - 1
        field(expo, frac) == <<v.sign>> \o PadLeft(NatBits(expo), ebits) \o PadRight(frac, fbits)
    IN  BitsToBytes(
            CASE v.k = "fzero" -> field(0, <<>>)
              [] v.k = "finf" -> field(2 ^ ebits - 1, <<>>)
              [] v.k = "fnan" -> field(2 ^ ebits - 1, v.m)
              [] v.k = "fnum" /\ v.e >= 1 - bias -> field(v.e + bias, v.m)
              [] v.k = "fnum" /\ v.e < 1 - bias ->
                    field(0, Zeros(1 - bias - v.e - 1) \o <<1>> \o v.m))

IsSignedFormat(fmt) == fmt \in {"b", "h", "i", "q"}
IsFloatFormat(fmt) == fmt \in {"f", "d"}

\* struct.calcsize of one format character in native mode
struct_calcsize(fmt) ==
    CASE fmt \in {"b", "B"} -> 1
      [] fmt \in {"h", "H"} -> 2
      [] fmt \in {"i", "I", "f"} -> 4
      [] fmt \in {"q", "Q", "d"} -> 8

\* the bytes of one scalar, most significant first, from their native order
NativeOrder(bo, bytes) == IF bo = "little" THEN Reverse(bytes) ELSE bytes

struct_unpack1_unsigned(fmt, bo, bytes) ==
    LET be == NativeOrder(bo, bytes)
    IN  CASE fmt = "f" -> UnpackFloat(8, be)
          [] fmt = "d" -> UnpackFloat(11, be)
          [] OTHER -> UnpackInt(FALSE, be)

\* struct.unpack of one scalar
struct_unpack1(fmt, bo, bytes) ==
    LET be == NativeOrder(bo, bytes)
    IN  CASE fmt = "f" -> UnpackFloat(8, be)
          [] fmt = "d" -> UnpackFloat(11, be)
          [] OTHER -> UnpackInt(IsSignedFormat(fmt), be)

\* struct.pack of one scalar: the inverse packing
struct_pack1(fmt, bo, v) ==
    LET be == CASE fmt = "f" -> PackFloat(8, 4, v)
                [] fmt = "d" -> PackFloat(11, 8, v)
                [] OTHER -> PackInt(struct_calcsize(fmt), v)
    IN  NativeOrder(bo, be)

\* struct.unpack(format_char * dim, buf) raises struct.error
struct_error(fmt, n, buf) == Len(buf) # struct_calcsize(fmt) * n

\* struct.unpack(format_char * dim, buf): the tuple
struct_unpack(fmt, n, bo, buf) ==
    LET w == struct_calcsize(fmt)
    IN  [j \in 1..n |-> struct_unpack1(fmt, bo, SubSeq(buf, (j - 1) * w + 1, j * w))]

RECURSIVE struct_pack(_, _, _)
struct_pack(fmt, bo, vs) ==
    IF vs = <<>> THEN <<>>
    ELSE struct_pack1(fmt, bo, Head(vs)) \o struct_pack(fmt, bo, Tail(vs))

----------------------------------------------------------------------------
(* NumPy arrays: [dtype, shape, flat], flat holding the elements row by row *)

IsIntKind(kind) == kind \in {"int8", "uint8", "int16", "uint16", "int32", "uint32", "int64", "uint64"}
IsSignedKind(kind) == kind \in {"int8", "int16", "int32", "int64"}
KindBits(kind) ==
    CASE kind \in {"int8", "uint8"} -> 8
      [] kind \in {"int16", "uint16"} -> 16
      [] kind \in {"int32", "uint32", "float32"} -> 32
      [] kind \in {"int64", "uint64", "float64"} -> 64

\* v is a value of the numeric kind
InKind(kind, v) ==
    LET w == KindBits(kind)
    IN  IF IsIntKind(kind)
        THEN /\ v.k = "int"
             /\ IF v.sign = 1
                THEN IsSignedKind(kind) /\ (Len(v.m) < w \/ v.m = <<1>> \o Zeros(w - 1))
                ELSE Len(v.m) <= (IF IsSignedKind(kind) THEN w - 1 ELSE w)
        ELSE LET ebits == IF w = 32 THEN 8 ELSE 11
                 fbits == w - 1 - ebits
                 bias == 2 ^ (ebits - 1) - 1
             IN  \/ v.k \in {"fzero", "finf"}
                 \/ v.k = "fnan" /\ Len(v.m) <= fbits
                 \/ /\ v.k = "fnum"
                    /\ \/ v.e >= 1 - bias /\ v.e <= bias /\ Len(v.m) <= fbits
                       \/ v.e < 1 - bias /\ v.e >= 1 - bias - fbits
                            /\ Len(v.m) <= fbits - (1 - bias - v.e)

\* the element np.asarray stores for a Python value: the value itself when the
\* kind holds it, and otherwise not that value (rounded, wrapped or refused)
np_cast(kind, v) ==
    IF InKind(kind, v) THEN v ELSE [k |-> "changed", sign |-> v.sign, e |-> v.e, m |-> v.m]

RECURSIVE Flatten(_)
Flatten(rows) == IF rows = <<>> THEN <<>> ELSE Head(rows) \o Flatten(Tail(rows))

\* np.asarray(list of tuples, dtype=kind)
np_asarray(rows, kind) ==
    LET els == Flatten(rows)
    IN  [dtype |-> kind,
         shape |-> IF rows = <<>> THEN <<0>> ELSE <<Len(rows), Len(rows[1])>>,
         flat |-> [i \in 1..Len(els) |-> np_cast(kind, els[i])]]

ReshapeError == [dtype |-> "ValueError", shape |-> <<>>, flat |-> <<>>]

\* a.reshape(-1) (cols = 0) and a.reshape(-1, cols)
np_reshape(a, cols) ==
    LET size == Len(a.flat)
    IN  IF cols = 0 THEN [a EXCEPT !.shape = <<size>>]
        ELSE IF size % cols # 0 THEN ReshapeError
        ELSE [a EXCEPT !.shape = <<size \div cols, cols>>]

asarray_flat(data_, dim_, code) == np_reshape(np_asarray(data_, sptk2numpy(code)), 0)

asarray_noreshape(data_, dim_, code) == np_asarray(data_, sptk2numpy(code))

asarray(data_, dim_, code) ==
    LET a == np_asarray(data_, sptk2numpy(code))
    IN  IF dim_ <= 1 THEN np_reshape(a, 0) ELSE np_reshape(a, dim_)

----------------------------------------------------------------------------
(* Byte sources *)

Min(a, b) == IF a <= b THEN a ELSE b

\* f.read(n) of a buffered binary stream at cursor p: n bytes, fewer only at
\* the end of the stream
io_read(bytes, p, n) == SubSeq(bytes, p + 1, Min(p + n, Len(bytes)))

Tape(t, p) == IF t = 1 THEN (37 * p + 11) % 256 ELSE (200 + 7 * p) % 254
TapePrefix(t, n) == [p \in 1..n |-> Tape(t, p)]

\* the two most significant bytes of the doubles 0.0 .. 7.0 (the other six are 0),
\* least significant first
DoubleTail ==
    << <<0, 0>>, <<240, 63>>, <<0, 64>>, <<8, 64>>, <<16, 64>>, <<20, 64>>,
       <<24, 64>>, <<28, 64>> >>

RECURSIVE DoublesFrom(_, _)
DoublesFrom(bo, n) ==
    IF n > 7 THEN <<>>
    ELSE (IF bo = "little" THEN Zeros(6) \o DoubleTail[n + 1]
          ELSE Reverse(DoubleTail[n + 1]) \o Zeros(6)) \o DoublesFrom(bo, n + 1)

\* eight doubles 0.0 .. 7.0 as the host stores them
EightDoubles(bo) == DoublesFrom(bo, 0)

\* the float value of a natural number
FloatOfNat(n) ==
    IF n = 0 THEN FloatVal("fzero", 0, 0, <<>>)
    ELSE FloatVal("fnum", 0, Len(NatBits(n)) - 1, StripTrailing(Tail(NatBits(n))))

SampleValues(code) ==
    LET fmt == sptk2struct(code).format_char
        w == 8 * struct_calcsize(fmt)
    IN  CASE fmt = "f" -> {FloatVal("fzero", 1, 0, <<>>), FloatVal("fnum", 0, 127, Ones(23)),
                           FloatVal("fnum", 1, -149, <<>>)}
          [] fmt = "d" -> {FloatVal("fzero", 1, 0, <<>>), FloatVal("fnum", 0, 1023, Ones(52)),
                           FloatVal("fnum", 1, -1074, <<>>)}
          [] IsSignedFormat(fmt) -> {IntVal(1, <<1>> \o Zeros(w - 1)), IntVal(1, <<1>>),
                                     IntVal(0, Ones(w - 1))}
          [] OTHER -> {IntVal(0, <<>>), IntVal(0, <<1>>), IntVal(0, Ones(w))}

SeqsUpTo(S, n) == UNION {[1..k -> S] : k \in 0..n}

NoOrigin == [packed |-> FALSE, scalars |-> <<>>]

\* the byte sources a reader is tried on: prefixes of two tapes, the eight
\* doubles, and the packings of up to MaxScalars sample values
Inputs(code, bo) ==
    {[bytes |-> TapePrefix(t, n), origin |-> NoOrigin] : t \in 1..2, n \in 0..MaxLen}
    \cup {[bytes |-> EightDoubles(bo), origin |-> NoOrigin]}
    \cup {[bytes |-> struct_pack(sptk2struct(code).format_char, bo, vs),
           origin |-> [packed |-> TRUE, scalars |-> vs]] :
             vs \in SeqsUpTo(SampleValues(code), MaxScalars)}

Paths == {"a", "b"}

----------------------------------------------------------------------------
(* read_binary and read_stdin *)

NoArray == [dtype |-> "None", shape |-> <<>>, flat |-> <<>>]

ToolIdle ==
    /\ tool = "none" /\ args = <<>> /\ tpc = "none" /\ idx = 0
    /\ readFrom = <<>> /\ traces = <<>> /\ stderr = <<>>
    /\ exit_status = -1 /\ image = FALSE

\* a reader called directly on a readable source
Init ==
    /\ byteorder \in {"little", "big"}
    /\ func \in {"read_binary", "read_stdin"}
    /\ dtype \in TypeCodes
    /\ dim \in 0..MaxDim
    /\ \E inp \in Inputs(dtype, byteorder) :
          /\ origin = inp.origin
          /\ fileBytes = [p \in Paths |-> IF func = "read_binary" THEN inp.bytes ELSE <<>>]
          /\ stdinBytes = (IF func = "read_stdin" THEN inp.bytes ELSE <<>>)
          /\ stream = (IF func = "read_stdin" THEN inp.bytes ELSE <<>>)
    /\ filename = (IF func = "read_binary" THEN "a" ELSE "None")
    /\ fileKind = [p \in Paths |-> "file"]
    /\ stdinPiped = TRUE
    /\ argv = <<>>
    /\ pos = 0 /\ data = <<>> /\ nreads = 0 /\ lastReq = 0 /\ lastGot = 0
    /\ dropped = <<>>
    /\ rpc = (IF func = "read_binary" THEN "open" ELSE "loop")
    /\ result = NoArray /\ exc = "none"
    /\ opened = <<>>
    /\ ToolIdle

OpenError(kind) ==
    CASE kind = "missing" -> "FileNotFoundError"
      [] kind = "dir" -> "IsADirectoryError"
      [] kind = "noperm" -> "PermissionError"

\* with open(filename, "rb") as f
read_binary_open ==
    /\ func = "read_binary" /\ rpc = "open"
    /\ opened' = Append(opened, filename)
    /\ IF fileKind[filename] = "file"
       THEN /\ stream' = fileBytes[filename] /\ rpc' = "loop" /\ exc' = exc
       ELSE /\ stream' = stream /\ rpc' = "raised" /\ exc' = OpenError(fileKind[filename])
    /\ UNCHANGED <<func, dtype, dim, filename, origin, pos, data, nreads, lastReq, lastGot,
                   dropped, result, envVars, toolVars>>

\* buf = f.read(byte_size * dim); if not buf: break
read_binary_eof ==
    /\ func = "read_binary" /\ rpc = "loop"
    /\ LET req == sptk2struct(dtype).byte_size * dim
           buf == io_read(stream, pos, req)
       IN  /\ buf = <<>>
           /\ nreads' = nreads + 1 /\ lastReq' = req /\ lastGot' = 0
    /\ rpc' = "asarray"
    /\ UNCHANGED <<func, dtype, dim, filename, stream, origin, pos, data, dropped, result,
                   exc, envVars, toolVars, opened>>

read_binary_short_continue ==
    /\ func = "read_binary" /\ rpc = "loop"
    /\ LET fmt == sptk2struct(dtype).format_char
           req == sptk2struct(dtype).byte_size * dim
           buf == io_read(stream, pos, req)
       IN  /\ buf # <<>>
           /\ struct_error(fmt, dim, buf)
           /\ nreads' = nreads + 1 /\ lastReq' = req /\ lastGot' = Len(buf)
           /\ pos' = pos + Len(buf)
           /\ dropped' = buf
    /\ rpc' = "loop"
    /\ UNCHANGED <<func, dtype, dim, filename, stream, origin, data, result, exc,
                   envVars, toolVars, opened>>

\* struct.unpack raises struct.error: break
read_binary_short ==
    /\ func = "read_binary" /\ rpc = "loop"
    /\ LET fmt == sptk2struct(dtype).format_char
           req == sptk2struct(dtype).byte_size * dim
           buf == io_read(stream, pos, req)
       IN  /\ buf # <<>>
           /\ struct_error(fmt, dim, buf)
           /\ nreads' = nreads + 1 /\ lastReq' = req /\ lastGot' = Len(buf)
           /\ pos' = pos + Len(buf)
           /\ dropped' = buf
    /\ rpc' = "asarray"
    /\ UNCHANGED <<func, dtype, dim, filename, stream, origin, data, result, exc,
                   envVars, toolVars, opened>>

read_binary_record_front ==
    /\ func = "read_binary" /\ rpc = "loop"
    /\ LET fmt == sptk2struct(dtype).format_char
           req == sptk2struct(dtype).byte_size * dim
           buf == io_read(stream, pos, req)
       IN  /\ buf # <<>>
           /\ ~struct_error(fmt, dim, buf)
           /\ nreads' = nreads + 1 /\ lastReq' = req /\ lastGot' = Len(buf)
           /\ pos' = pos + Len(buf)
           /\ data' = <<struct_unpack(fmt, dim, byteorder, buf)>> \o data
    /\ UNCHANGED <<func, dtype, dim, filename, stream, origin, dropped, rpc, result, exc,
                   envVars, toolVars, opened>>

\* tmp = struct.unpack(format_char * dim, buf); data.append(tmp)
read_binary_record ==
    /\ func = "read_binary" /\ rpc = "loop"
    /\ LET fmt == sptk2struct(dtype).format_char
           req == sptk2struct(dtype).byte_size * dim
           buf == io_read(stream, pos, req)
       IN  /\ buf # <<>>
           /\ ~struct_error(fmt, dim, buf)
           /\ nreads' = nreads + 1 /\ lastReq' = req /\ lastGot' = Len(buf)
           /\ pos' = pos + Len(buf)
           /\ data' = Append(data, struct_unpack(fmt, dim, byteorder, buf))
    /\ UNCHANGED <<func, dtype, dim, filename, stream, origin, dropped, rpc, result, exc,
                   envVars, toolVars, opened>>

\* return asarray(data, dim=dim, dtype=dtype)
read_binary_return ==
    /\ func = "read_binary" /\ rpc = "asarray"
    /\ result' = asarray(data, dim, dtype)
    /\ rpc' = "done"
    /\ UNCHANGED <<func, dtype, dim, filename, stream, origin, pos, data, nreads, lastReq,
                   lastGot, dropped, exc, envVars, toolVars, opened>>

\* buf = source.read(byte_size * dim); if not buf: break
read_stdin_eof ==
    /\ func = "read_stdin" /\ rpc = "loop"
    /\ LET req == sptk2struct(dtype).byte_size * dim
           buf == io_read(stream, pos, req)
       IN  /\ buf = <<>>
           /\ nreads' = nreads + 1 /\ lastReq' = req /\ lastGot' = 0
    /\ rpc' = "asarray"
    /\ UNCHANGED <<func, dtype, dim, filename, stream, origin, pos, data, dropped, result,
                   exc, envVars, toolVars, opened>>

\* struct.unpack raises struct.error: break
read_stdin_short ==
    /\ func = "read_stdin" /\ rpc = "loop"
    /\ LET fmt == sptk2struct(dtype).format_char
           req == sptk2struct(dtype).byte_size * dim
           buf == io_read(stream, pos, req)
       IN  /\ buf # <<>>
           /\ struct_error(fmt, dim, buf)
           /\ nreads' = nreads + 1 /\ lastReq' = req /\ lastGot' = Len(buf)
           /\ pos' = pos + Len(buf)
           /\ dropped' = buf
    /\ rpc' = "asarray"
    /\ UNCHANGED <<func, dtype, dim, filename, stream, origin, data, result, exc,
                   envVars, toolVars, opened>>

\* tmp = struct.unpack(format_char * dim, buf); data.append(tmp)
read_stdin_record ==
    /\ func = "read_stdin" /\ rpc = "loop"
    /\ LET fmt == sptk2struct(dtype).format_char
           req == sptk2struct(dtype).byte_size * dim
           buf == io_read(stream, pos, req)
       IN  /\ buf # <<>>
           /\ ~struct_error(fmt, dim, buf)
           /\ nreads' = nreads + 1 /\ lastReq' = req /\ lastGot' = Len(buf)
           /\ pos' = pos + Len(buf)
           /\ data' = Append(data, struct_unpack(fmt, dim, byteorder, buf))
    /\ UNCHANGED <<func, dtype, dim, filename, stream, origin, dropped, rpc, result, exc,
                   envVars, toolVars, opened>>

\* return asarray(data, dim=dim, dtype=dtype)
read_stdin_return ==
    /\ func = "read_stdin" /\ rpc = "asarray"
    /\ result' = asarray(data, dim, dtype)
    /\ rpc' = "done"
    /\ UNCHANGED <<func, dtype, dim, filename, stream, origin, pos, data, nreads, lastReq,
                   lastGot, dropped, exc, envVars, toolVars, opened>>

Next ==
    \/ read_binary_open
    \/ read_binary_eof
    \/ read_binary_short
    \/ read_binary_record
    \/ read_binary_return
    \/ read_stdin_eof
    \/ read_stdin_short
    \/ read_stdin_record
    \/ read_stdin_return

Spec == Init /\ [][Next]_vars

----------------------------------------------------------------------------
(* Command lines and the tools' argument parsers.  A command-line word is   *)
(* kept as its leading '-' or '+' (if it has one), the rest of its text and, *)
(* if it is a decimal number, its value.  A value that may be None is a      *)
(* sequence of at most one element: <<>> is None.  A path that is None is    *)
(* "None".  Only the options the model follows are in the parsers.          *)

Word(lead, s) == [lead |-> lead, s |-> s, num |-> <<>>]
Number(n) == [lead |-> (IF n < 0 THEN "-" ELSE ""), s |-> "", num |-> <<n>>]

\* a word that is the integers vs with commas between them, such as 1,2; a
\* word of one integer is that number
List(vs) ==
    [lead |-> (IF vs[1] < 0 THEN "-" ELSE ""), s |-> "",
     num |-> (IF Len(vs) = 1 THEN vs ELSE <<>>), list |-> vs]

\* parser.add_argument(name, dest=..., action=..., type=..., const=...);
\* nullable: the default is None
Option(lead, s, dest, action, type, const, nullable) ==
    [lead |-> lead, s |-> s, dest |-> dest, action |-> action, type |-> type,
     const |-> const, nullable |-> nullable]

add_argument(parser, opt, default) ==
    [parser EXCEPT !.options = @ \cup {opt}, !.defaults = (opt.dest :> default) @@ @]

get_default_parser_float_default(allow_dtype) ==
    [prefix_chars |-> {"-", "+"},
     positionals |-> <<"in_file", "out_file">>,
     options |-> {Option("-", "M", "margin", "MarginAction", "str", "", TRUE)}
                 \cup (IF allow_dtype
                       THEN {Option("+", c, "dtype", "store_const", "", c, FALSE) : c \in TypeCodes}
                       ELSE {}),
     defaults |-> [in_file |-> "None", out_file |-> "None", margin |-> <<>>, dtype |-> "f"]]

\* get_default_parser(description, input_name, allow_dtype) with an input_name:
\* infile (nargs="?") and outfile, -M with its own action, the +c .. +d flags
\* if allow_dtype, and set_defaults(dtype="d") in either case
get_default_parser(allow_dtype) ==
    [prefix_chars |-> {"-", "+"},
     positionals |-> <<"in_file", "out_file">>,
     options |-> {Option("-", "M", "margin", "MarginAction", "str", "", TRUE)}
                 \cup (IF allow_dtype
                       THEN {Option("+", c, "dtype", "store_const", "", c, FALSE) : c \in TypeCodes}
                       ELSE {}),
     defaults |-> [in_file |-> "None", out_file |-> "None", margin |-> <<>>, dtype |-> "d"]]

\* argparse.ArgumentParser(description=...) with infile (nargs="?") and outfile
InOutParser ==
    [prefix_chars |-> {"-"},
     positionals |-> <<"in_file", "out_file">>,
     options |-> {},
     defaults |-> [in_file |-> "None", out_file |-> "None"]]

\* -s -e -n -i -r of gwave, gseries and gspecgram
ScreenOptions(p) ==
    LET p1 == add_argument(p, Option("-", "s", "start_point", "store", "int", "", FALSE), 0)
        p2 == add_argument(p1, Option("-", "e", "end_point", "store", "int", "", TRUE), <<>>)
        p3 == add_argument(p2, Option("-", "n", "num_samples", "store", "int", "", TRUE), <<>>)
        p4 == add_argument(p3, Option("-", "i", "num_screens", "store", "int", "", FALSE), 1)
    IN  add_argument(p4, Option("-", "r", "reset", "store_true", "", "", FALSE), FALSE)

\* gpolezero: outfile only, -q, -z, -p
gpolezero_parser ==
    LET p0 == [prefix_chars |-> {"-"}, positionals |-> <<"out_file">>,
               options |-> {}, defaults |-> [out_file |-> "None"]]
        p1 == add_argument(p0, Option("-", "q", "input_format", "store", "int", "", FALSE), 0)
        p2 == add_argument(p1, Option("-", "z", "zero_file", "store", "str", "", FALSE), "None")
    IN  add_argument(p2, Option("-", "p", "pole_file", "store", "str", "", FALSE), "None")

\* the parser get_arguments() of tool t builds
ParserOf(t) ==
    CASE t \in {"gwave", "gseries"} ->
            add_argument(ScreenOptions(get_default_parser(TRUE)),
                         Option("-", "x", "sr", "store", "float", "", TRUE), <<>>)
      [] t = "gspecgram" ->
            add_argument(add_argument(ScreenOptions(get_default_parser(TRUE)),
                                      Option("-", "y", "sr", "store", "float", "", FALSE), 16),
                         Option("-", "l", "window_length", "store", "int", "", FALSE), 512)
      [] t = "fdrw" ->
            add_argument(add_argument(InOutParser,
                                      Option("-", "n", "num_samples", "store", "int", "", TRUE), <<>>),
                         Option("-", "z", "bias", "store", "float", "", FALSE), 0)
      [] t = "glogsp" ->
            add_argument(add_argument(InOutParser,
                                      Option("-", "s", "frame_number", "store", "int", "", FALSE), 0),
                         Option("-", "l", "frame_length", "store", "int", "", FALSE), 256)
      [] t = "grlogsp" ->
            add_argument(
                add_argument(
                    add_argument(InOutParser,
                                 Option("-", "s", "start_frame_number", "store", "int", "", FALSE), 0),
                    Option("-", "e", "end_frame_number", "store", "int", "", TRUE), <<>>),
                Option("-", "l", "frame_length", "store", "int", "", FALSE), 256)
      [] t = "gpolezero" -> gpolezero_parser

\* a word that argparse takes for an option: it starts with a prefix character
\* and is not a negative number (no option of these parsers looks like one)
IsOptionWord(parser, w) == w.num = <<>> /\ w.lead \in parser.prefix_chars

\* values.split(",") with int() of every part: the integers of the word, or
\* the ValueError of int()
split_ints(w) ==
    IF "list" \in DOMAIN w THEN [ok |-> TRUE, v |-> w.list]
    ELSE IF w.num # <<>> THEN [ok |-> TRUE, v |-> w.num]
    ELSE [ok |-> FALSE, v |-> <<>>]

dict(l, r, t, b) == [l |-> l, r |-> r, t |-> t, b |-> b]

MarginAction_call_crosswise(w) ==
    LET v == split_ints(w).v
    IN  IF ~split_ints(w).ok THEN [ok |-> FALSE, values |-> <<>>]
        ELSE CASE Len(v) = 1 -> [ok |-> TRUE, values |-> <<dict(v[1], v[1], v[1], v[1])>>]
               [] Len(v) = 2 -> [ok |-> TRUE, values |-> <<dict(v[1], v[2], v[1], v[2])>>]
               [] Len(v) = 4 -> [ok |-> TRUE, values |-> <<dict(v[1], v[2], v[3], v[4])>>]
               [] OTHER -> [ok |-> FALSE, values |-> <<>>]

\* MarginAction.__call__ on the word after -M: the dict of the four margins
\* for one, two or four integers, ValueError for any other word
MarginAction_call(w) ==
    LET v == split_ints(w).v
    IN  IF ~split_ints(w).ok THEN [ok |-> FALSE, values |-> <<>>]
        ELSE CASE Len(v) = 1 -> [ok |-> TRUE, values |-> <<dict(v[1], v[1], v[1], v[1])>>]
               [] Len(v) = 2 -> [ok |-> TRUE, values |-> <<dict(v[1], v[1], v[2], v[2])>>]
               [] Len(v) = 4 -> [ok |-> TRUE, values |-> <<dict(v[1], v[2], v[3], v[4])>>]
               [] OTHER -> [ok |-> FALSE, values |-> <<>>]

RECURSIVE parse_words(_, _, _, _)
\* the loop of parse_known_args over the words from the i-th on: an option
\* stores its value over the one already there, any other word is a positional
\* argument, a word with a prefix character that no option has is left over;
\* an exception of an action ends the loop
parse_words(parser, words, i, st) ==
    IF st.err # "" \/ st.exc # "" \/ i > Len(words) THEN st
    ELSE LET w == words[i]
             match == {o \in parser.options : o.lead = w.lead /\ o.s = w.s}
         IN  IF ~IsOptionWord(parser, w)
             THEN parse_words(parser, words, i + 1, [st EXCEPT !.pos = Append(@, w)])
             ELSE IF match = {}
             THEN parse_words(parser, words, i + 1, [st EXCEPT !.extras = Append(@, w)])
             ELSE LET o == CHOOSE o \in match : TRUE
                  IN  CASE o.action = "store_true" ->
                              parse_words(parser, words, i + 1,
                                          [st EXCEPT !.ns = (o.dest :> TRUE) @@ @])
                        [] o.action = "store_const" ->
                              parse_words(parser, words, i + 1,
                                          [st EXCEPT !.ns = (o.dest :> o.const) @@ @])
                        [] o.action = "MarginAction" ->
                              IF i = Len(words) \/ IsOptionWord(parser, words[i + 1])
                              THEN [st EXCEPT !.err = "expected one argument"]
                              ELSE LET m == MarginAction_call(words[i + 1])
                                   IN  IF ~m.ok THEN [st EXCEPT !.exc = "ValueError"]
                                       ELSE parse_words(parser, words, i + 2,
                                                [st EXCEPT !.ns = (o.dest :> m.values) @@ @])
                        [] o.action = "store" ->
                              IF i = Len(words) \/ IsOptionWord(parser, words[i + 1])
                              THEN [st EXCEPT !.err = "expected one argument"]
                              ELSE LET v == words[i + 1]
                                   IN  IF o.type = "str"
                                       THEN parse_words(parser, words, i + 2,
                                                [st EXCEPT !.ns = (o.dest :> v.s) @@ @])
                                       ELSE IF v.num = <<>>
                                       THEN [st EXCEPT !.err = "invalid value"]
                                       ELSE parse_words(parser, words, i + 2,
                                                [st EXCEPT !.ns =
                                                    (o.dest :> (IF o.nullable THEN v.num
                                                                ELSE v.num[1])) @@ @])

\* the positional words (given next to one another) against the parser's
\* positionals: outfile takes one word, infile (nargs="?") one if there are
\* two; no word is an error, and so is a word too many or a left-over word
bind_positionals(parser, st) ==
    LET n == Len(st.pos)
        k == Len(parser.positionals)
    IN  IF st.err # "" \/ st.exc # "" THEN st
        ELSE IF n = 0
        THEN [st EXCEPT !.err = "the following arguments are required: outfile"]
        ELSE IF n > k \/ st.extras # <<>>
        THEN [st EXCEPT !.err = "unrecognized arguments"]
        ELSE IF n = 1
        THEN [st EXCEPT !.ns = ("out_file" :> st.pos[1].s) @@ @]
        ELSE [st EXCEPT !.ns = ("in_file" :> st.pos[1].s) @@ ("out_file" :> st.pos[2].s) @@ @]

\* parser.parse_args(): the namespace, or the error message of parser.error(),
\* or the exception an action raised
parse_args(parser, words) ==
    bind_positionals(parser,
        parse_words(parser, words, 1,
                    [ns |-> parser.defaults, pos |-> <<>>, extras |-> <<>>, err |-> "", exc |-> ""]))

get_arguments(t, words) == parse_args(ParserOf(t), words)

----------------------------------------------------------------------------
(* The tools' main() functions.  Every tool but gpolezero takes an optional *)
(* positional infile; gpolezero takes its inputs with -z and -p.  Options   *)
(* the model does not name are at their defaults.                           *)

Tools == {"gwave", "gseries", "gspecgram", "fdrw", "glogsp", "grlogsp", "gpolezero"}

\* the tools whose parser comes from get_default_parser: they take +c .. +d
DtypeTools == {"gwave", "gseries", "gspecgram"}

\* sets of word sequences: one after the other, or left out
Cat(A, B) == {a \o b : a \in A, b \in B}
Maybe(A) == {<<>>} \cup A
OptNum(s, ns) == {<<Word("-", s), Number(n)>> : n \in ns}
OptStr(s, ps) == {<<Word("-", s), Word("", p)>> : p \in ps}
OutFile == {<<Word("", "o")>>}
InFile == {<<Word("", "a")>>}

\* the command lines tried with every kind of file system
ToolArgvs(t) ==
    CASE t \in DtypeTools -> Cat(Maybe({<<Word("+", "s")>>}), Cat(Maybe(InFile), OutFile))
      [] t = "fdrw" -> Cat(Maybe(InFile), OutFile)
      [] t \in {"glogsp", "grlogsp"} -> Cat(OptNum("l", {2, 3}), Cat(Maybe(InFile), OutFile))
      [] t = "gpolezero" ->
            Cat(Maybe(OptNum("q", {-1, 1, 2})),
                Cat(Maybe(OptStr("z", Paths)), Cat(Maybe(OptStr("p", Paths)), OutFile)))

\* the contents of file "a", of file "b" and of standard input
Contents == {TapePrefix(2, n) : n \in {0, 8, 33}}
ContentsB == TapePrefix(1, 16)
StdinContents == {TapePrefix(1, n) : n \in {0, 17}}

\* gpolezero: in_files = [zero_file, pole_file] without the None's, [None] if
\* both are; the other tools have the one args.in_file
in_files ==
    IF tool = "gpolezero"
    THEN LET zs == IF args.zero_file # "None" THEN <<args.zero_file>> ELSE <<>>
             ps == IF args.pole_file # "None" THEN <<args.pole_file>> ELSE <<>>
         IN  IF 0 = Len(zs \o ps) THEN <<"None">> ELSE zs \o ps
    ELSE <<args.in_file>>

\* gpolezero: the markers zip() pairs with in_files
markers == <<"circle-open", "x-thin">>

call_dim_half ==
    CASE tool \in {"glogsp", "grlogsp"} -> args.frame_length \div 2
      [] tool = "gpolezero" -> 2
      [] OTHER -> 1

\* the dim and dtype the tool hands to the reader (the reader's defaults are
\* dim=1 and dtype="d")
call_dim ==
    CASE tool \in {"glogsp", "grlogsp"} -> args.frame_length \div 2 + 1
      [] tool = "gpolezero" -> 2
      [] OTHER -> 1

call_dtype == IF tool \in DtypeTools THEN args.dtype ELSE "d"

os_path_exists(p) == fileKind[p] # "missing"

\* print(f"{name}: {message}!", file=sys.stderr)
print_error_message(name, message) == <<name, ": ">> \o message \o <<"!">>

\* what the interpreter prints for an exception nobody catches, before it
\* exits with status 1
Traceback(e) == <<"Traceback (most recent call last):", e>>

\* number of records of the array the reader returned: len(data)
Rows == IF Len(result.shape) = 0 THEN 0 ELSE result.shape[1]

\* the command lines tried on one readable file: the options that select the
\* samples or frames and lay out the screens
OptionArgvs(t) ==
    CASE t \in DtypeTools ->
            Cat({<<Word("+", "c")>>},
            Cat(Maybe(OptNum("s", {1, -2})),
            Cat(Maybe(OptNum("e", {-3, -1, 3, 9})),
            Cat(Maybe(OptNum("i", {2, 3})),
            Cat(Maybe(OptNum("n", {2})),
            Cat(Maybe({<<Word("-", "r")>>}),
            Cat(Maybe(IF t = "gspecgram" THEN OptNum("l", {2}) ELSE OptNum("x", {16})),
            Cat(InFile, OutFile))))))))
      [] t = "grlogsp" ->
            Cat(OptNum("l", {2}),
            Cat(Maybe(OptNum("s", {1, -2})),
            Cat(Maybe(OptNum("e", {-3, -1, 2, 9})), Cat(InFile, OutFile))))
      [] t = "glogsp" ->
            Cat(OptNum("l", {2}), Cat(OptNum("s", {-5, -1, 1, 4}), Cat(InFile, OutFile)))
      [] t = "fdrw" ->
            Cat(Maybe(OptNum("n", {-1, 0, 3, 4, 8, 9})),
            Cat(Maybe(OptNum("z", {2})), Cat(InFile, OutFile)))
      [] t = "gpolezero" -> {}

\* the file the options are tried on: 5 or 8 one-byte samples, or 70 bytes
\* of doubles
OptionContents(t) ==
    IF t \in DtypeTools THEN {TapePrefix(2, n) : n \in {5, 8}} ELSE {TapePrefix(2, 70)}

ToolInit ==
    /\ tool \in Tools
    /\ \/ /\ byteorder \in {"little", "big"}
          /\ argv \in ToolArgvs(tool)
          /\ fileKind \in [Paths -> {"missing", "file", "dir", "noperm"}]
          /\ \E c \in Contents :
                fileBytes = [p \in Paths |-> IF fileKind[p] # "file" THEN <<>>
                                             ELSE IF p = "a" THEN c ELSE ContentsB]
          /\ stdinBytes \in StdinContents
          /\ stdinPiped \in BOOLEAN
       \/ /\ byteorder = "little"
          /\ argv \in OptionArgvs(tool)
          /\ fileKind = [p \in Paths |-> "file"]
          /\ \E c \in OptionContents(tool) :
                fileBytes = [p \in Paths |-> IF p = "a" THEN c ELSE ContentsB]
          /\ stdinBytes = <<>>
          /\ stdinPiped = FALSE
    /\ args = get_arguments(tool, argv).ns
    /\ func = "none" /\ dtype = "d" /\ dim = 1 /\ filename = "None"
    /\ stream = <<>> /\ origin = NoOrigin
    /\ pos = 0 /\ data = <<>> /\ nreads = 0 /\ lastReq = 0 /\ lastGot = 0
    /\ dropped = <<>> /\ rpc = "idle" /\ result = NoArray /\ exc = "none"
    /\ tpc = "main" /\ idx = 1
    /\ readFrom = <<>> /\ traces = <<>> /\ stderr = <<>>
    /\ exit_status = -1 /\ image = FALSE
    /\ opened = <<>>

\* if in_file is None: data = utils.read_stdin(...)
\* (gwave 175-176, gseries 217-218, gspecgram 177-178, fdrw 293-294,
\*  glogsp 174-175, grlogsp 193-194, gpolezero 229-230)
main_read_stdin ==
    /\ tpc = "main"
    /\ in_files[idx] = "None"
    /\ func' = "read_stdin" /\ dtype' = call_dtype /\ dim' = call_dim
    /\ filename' = "None" /\ stream' = stdinBytes /\ origin' = NoOrigin
    /\ pos' = 0 /\ data' = <<>> /\ nreads' = 0 /\ lastReq' = 0 /\ lastGot' = 0
    /\ dropped' = <<>> /\ rpc' = "loop" /\ result' = NoArray /\ exc' = "none"
    /\ readFrom' = Append(readFrom, "None")
    /\ tpc' = "reading"
    /\ UNCHANGED <<envVars, tool, args, idx, traces, stderr, exit_status, image, opened>>

main_cannot_open_no_exit ==
    /\ tpc = "main"
    /\ in_files[idx] # "None"
    /\ ~os_path_exists(in_files[idx])
    /\ stderr' = Append(stderr, print_error_message(tool, <<"Cannot open ", in_files[idx]>>))
    /\ func' = "read_binary" /\ dtype' = call_dtype /\ dim' = call_dim
    /\ filename' = in_files[idx] /\ stream' = <<>> /\ origin' = NoOrigin
    /\ pos' = 0 /\ data' = <<>> /\ nreads' = 0 /\ lastReq' = 0 /\ lastGot' = 0
    /\ dropped' = <<>> /\ rpc' = "open" /\ result' = NoArray /\ exc' = "none"
    /\ readFrom' = Append(readFrom, in_files[idx])
    /\ tpc' = "reading"
    /\ UNCHANGED <<envVars, tool, args, idx, traces, exit_status, image, opened>>

\* if not os.path.exists(in_file):
\*     utils.print_error_message(tool, f"Cannot open {in_file}"); sys.exit(1)
\* (gwave 178-180, gseries 220-222, gspecgram 180-182, fdrw 296-298,
\*  glogsp 177-179, grlogsp 196-198, gpolezero 232-234)
main_cannot_open ==
    /\ tpc = "main"
    /\ in_files[idx] # "None"
    /\ ~os_path_exists(in_files[idx])
    /\ stderr' = Append(stderr, print_error_message(tool, <<"Cannot open ", in_files[idx]>>))
    /\ exit_status' = 1
    /\ tpc' = "exit"
    /\ UNCHANGED <<readerVars, envVars, tool, args, idx, readFrom, traces, image, opened>>

main_read_binary_exclusive ==
    /\ tpc = "main"
    /\ in_files[idx] # "None"
    /\ os_path_exists(in_files[idx])
    /\ stdinPiped
    /\ stderr' = Append(stderr, print_error_message(tool, <<"Both infile and stdin are given">>))
    /\ exit_status' = 1
    /\ tpc' = "exit"
    /\ UNCHANGED <<readerVars, envVars, tool, args, idx, readFrom, traces, image, opened>>

\* data = utils.read_binary(in_file, ...)
\* (gwave 181, gseries 223, gspecgram 183, fdrw 299, glogsp 180, grlogsp 199,
\*  gpolezero 235)
main_read_binary ==
    /\ tpc = "main"
    /\ in_files[idx] # "None"
    /\ os_path_exists(in_files[idx])
    /\ func' = "read_binary" /\ dtype' = call_dtype /\ dim' = call_dim
    /\ filename' = in_files[idx] /\ stream' = <<>> /\ origin' = NoOrigin
    /\ pos' = 0 /\ data' = <<>> /\ nreads' = 0 /\ lastReq' = 0 /\ lastGot' = 0
    /\ dropped' = <<>> /\ rpc' = "open" /\ result' = NoArray /\ exc' = "none"
    /\ readFrom' = Append(readFrom, in_files[idx])
    /\ tpc' = "reading"
    /\ UNCHANGED <<envVars, tool, args, idx, traces, stderr, exit_status, image, opened>>

\* the reader raised (open() failed): main() has no handler, the interpreter
\* prints the traceback and the process exits with status 1
main_uncaught ==
    /\ tpc = "reading" /\ rpc = "raised"
    /\ stderr' = Append(stderr, Traceback(exc))
    /\ exit_status' = 1
    /\ tpc' = "exit"
    /\ UNCHANGED <<readerVars, envVars, tool, args, idx, readFrom, traces, image, opened>>

\* a trace: its type, its x values and the rows of data it shows (y)
Trace(type, x, y) == [type |-> type, x |-> x, y |-> y]

Drawn(new) ==
    /\ traces' = traces \o new
    /\ tpc' = "drawn"
    /\ UNCHANGED <<stderr, exit_status, idx>>

\* an exception raised while the figure is built, after the traces in new were
\* added to it, ends the process like one of the reader
RaiseAfter(new, e) ==
    /\ traces' = traces \o new
    /\ stderr' = Append(stderr, Traceback(e))
    /\ exit_status' = 1
    /\ tpc' = "exit"
    /\ UNCHANGED idx

Max(a, b) == IF a >= b THEN a ELSE b

\* the rows of data, by index
RowIndices == [k \in 1..Rows |-> k - 1]

\* where Python puts a slice bound i of a sequence of n items: a negative
\* bound counts from the end, and a bound outside the sequence is clipped
slice_index(i, n) == IF i < 0 THEN Max(i + n, 0) ELSE Min(i, n)

\* seq[start:stop]; stop is <<>> for None
py_slice(seq, start, stop) ==
    LET n == Len(seq)
        lo == slice_index(start, n)
        hi == IF stop = <<>> THEN n ELSE slice_index(stop[1], n)
    IN  IF lo < hi THEN SubSeq(seq, lo + 1, hi) ELSE <<>>

end_stop_exclusive(end) == IF end = <<>> THEN <<>> ELSE <<end[1]>>

\* None if end is None else end + 1
end_stop(end) == IF end = <<>> THEN <<>> ELSE <<end[1] + 1>>

\* y = data[args.start_point : None if args.end_point is None else args.end_point + 1]
selected(start, end) == py_slice(RowIndices, start, end_stop(end))

np_arange_from_zero(n, start) == [k \in 1..n |-> k - 1]

\* np.arange(n) + start
np_arange_from(n, start) == [k \in 1..n |-> k - 1 + start]

\* the x values of the selection: numerators num over the one denominator
\* den, which is sr * 1000 if -x sr is given
x_axis(n, start, sr) ==
    [num |-> np_arange_from(n, start), den |-> IF sr = <<>> THEN 1 ELSE sr[1] * 1000]

screen_bounds_even(i, len, m, nsamp) ==
    LET n == IF nsamp = <<>> THEN len \div m ELSE nsamp[1]
    IN  <<i * n, i * n + n>>

\* the s and e of screen i (from 0) of m: n = len(y) // num_screens unless -n
\* gives it; s starts at 0 and becomes e after every screen; e = len(y) for
\* the last screen if -n is not given, s + n otherwise
screen_bounds(i, len, m, nsamp) ==
    LET n == IF nsamp = <<>> THEN len \div m ELSE nsamp[1]
    IN  <<i * n, IF nsamp = <<>> /\ i = m - 1 THEN len ELSE i * n + n>>

screen_trace_same_slice(type, i, x, y) ==
    LET b == screen_bounds(i, Len(y), args.num_screens, args.num_samples)
    IN  Trace(type,
              [num |-> IF args.reset
                       THEN py_slice(x.num, 0, <<Len(py_slice(y, b[1], <<b[2]>>))>>)
                       ELSE py_slice(x.num, b[1], <<b[2]>>),
               den |-> x.den],
              py_slice(y, b[1], <<b[2]>>))

\* the Scatter of screen i: x[: e - s] if args.reset else x[s:e], y[s:e]
screen_trace(type, i, x, y) ==
    LET b == screen_bounds(i, Len(y), args.num_screens, args.num_samples)
    IN  Trace(type,
              [num |-> IF args.reset THEN py_slice(x.num, 0, <<b[2] - b[1]>>)
                       ELSE py_slice(x.num, b[1], <<b[2]>>),
               den |-> x.den],
              py_slice(y, b[1], <<b[2]>>))

\* gwave: ymax = np.amax(np.abs(y)) raises ValueError when y is empty;
\* one Scatter trace per screen
gwave_draw ==
    /\ tool = "gwave" /\ tpc = "reading" /\ rpc = "done"
    /\ LET y == selected(args.start_point, args.end_point)
           x == x_axis(Len(y), args.start_point, args.sr)
       IN  IF Len(y) = 0 THEN RaiseAfter(<<>>, "ValueError")
           ELSE Drawn([i \in 1..args.num_screens |-> screen_trace("Scatter", i - 1, x, y)])
    /\ UNCHANGED <<readerVars, envVars, tool, args, readFrom, image, opened>>

\* warnings.warn(f"{name}: {message}", RuntimeWarning): one line on standard
\* error, the run goes on
print_warn_message(name, message) == <<"RuntimeWarning: ", name, ": ">> \o message

TooManyPoints == 100000

too_many_inclusive(n) == TooManyPoints <= n

\* if 100000 < len(y):
too_many(n) == TooManyPoints < n

\* gseries: as gwave, with a warning for more than 100000 points and a Bar
\* and a Scatter trace per screen
gseries_draw ==
    /\ tool = "gseries" /\ tpc = "reading" /\ rpc = "done"
    /\ LET y == selected(args.start_point, args.end_point)
           x == x_axis(Len(y), args.start_point, args.sr)
           warned == IF too_many(Len(y))
                     THEN Append(stderr, print_warn_message("gseries",
                                     <<"Too many data points. This takes a long time.">>))
                     ELSE stderr
           shown == [j \in 1..2 * args.num_screens |->
                        screen_trace(IF j % 2 = 1 THEN "Bar" ELSE "Scatter", (j - 1) \div 2, x, y)]
       IN  IF Len(y) = 0
           THEN /\ stderr' = Append(warned, Traceback("ValueError"))
                /\ exit_status' = 1
                /\ tpc' = "exit"
                /\ UNCHANGED <<traces, idx>>
           ELSE /\ traces' = traces \o shown
                /\ stderr' = warned
                /\ tpc' = "drawn"
                /\ UNCHANGED <<exit_status, idx>>
    /\ UNCHANGED <<readerVars, envVars, tool, args, readFrom, image, opened>>

\* the segment times of signal.spectrogram(y, fs, window, nperseg) for len
\* samples, as numerators over 2 * fs: a window longer than the signal is cut
\* to it, noverlap = nperseg // 8, and
\* time = np.arange(nperseg / 2, len - nperseg / 2 + 1, nperseg - noverlap) / fs
spectrogram_times(len, window_length) ==
    LET nperseg == Min(window_length, len)
        noverlap == nperseg \div 8
        step == nperseg - noverlap
        nseg == (len - nperseg) \div step + 1
    IN  [k \in 1..nseg |-> nperseg + 2 * (k - 1) * step]

\* the Heatmap of one screen: x = (time + bias) * 0.001
Heatmap(time, den, bias, y) ==
    [type |-> "Heatmap", x |-> [num |-> [k \in 1..Len(time) |-> time[k] + bias], den |-> den],
     y |-> y, bias |-> bias]

RECURSIVE gspecgram_screens(_, _, _, _)
\* the loop over the screens from screen i on, the traces so far in acc: the
\* spectrogram of y[s:e] is drawn with the bias of the screen before, and
\* 'if not args.reset: bias = time[-1]'.  Of an empty signal scipy either
\* refuses the segment length (ValueError) or returns empty arrays, and then
\* time[-1] raises IndexError: the loop ends with the traces added so far
gspecgram_screens(i, y, bias, acc) ==
    IF i = args.num_screens THEN [traces |-> acc, raised |-> FALSE]
    ELSE LET b == screen_bounds(i, Len(y), args.num_screens, args.num_samples)
             ys == py_slice(y, b[1], <<b[2]>>)
             time == spectrogram_times(Len(ys), args.window_length)
         IN  IF Len(ys) = 0 THEN [traces |-> acc, raised |-> TRUE]
             ELSE gspecgram_screens(i + 1, y,
                                    IF args.reset THEN bias ELSE time[Len(time)],
                                    Append(acc, Heatmap(time, 2 * args.sr * 1000, bias, ys)))

\* gspecgram: one Heatmap per screen
gspecgram_draw ==
    /\ tool = "gspecgram" /\ tpc = "reading" /\ rpc = "done"
    /\ LET y == selected(args.start_point, args.end_point)
           r == gspecgram_screens(0, y, 0, <<>>)
       IN  IF r.raised
           THEN \E e \in {"ValueError", "IndexError"} : RaiseAfter(r.traces, e)
           ELSE Drawn(r.traces)
    /\ UNCHANGED <<readerVars, envVars, tool, args, readFrom, image, opened>>

\* a graph of fdrw: x = np.arange(step), y = the rows of data shown, each
\* value with add added to it
Graph(x, y, add) == [type |-> "Scatter", x |-> x, y |-> y, add |-> add]

graph_bias_from_one(bias, i) == bias * (i + 1)

\* args.bias * i
graph_bias(bias, i) == bias * i

\* fdrw: step = len(data) unless -n gives a positive one; range(0, len(data),
\* step) raises ValueError when step is 0; one trace of
\* data[j : j + step] + (args.bias * i) for the i-th j of the range
fdrw_draw ==
    /\ tool = "fdrw" /\ tpc = "reading" /\ rpc = "done"
    /\ LET step == IF args.num_samples = <<>> \/ args.num_samples[1] <= 0 THEN Rows
                   ELSE args.num_samples[1]
       IN  IF step = 0 THEN RaiseAfter(<<>>, "ValueError")
           ELSE Drawn([i \in 1..((Rows + step - 1) \div step) |->
                          Graph(np_arange_from(step, 0),
                                py_slice(RowIndices, (i - 1) * step, <<i * step>>),
                                graph_bias(args.bias, i - 1))])
    /\ UNCHANGED <<readerVars, envVars, tool, args, readFrom, image, opened>>

\* glogsp: y = data[args.frame_number] raises IndexError when there is no
\* such record (a negative number counts from the end); one Scatter trace of
\* that frame
glogsp_draw ==
    /\ tool = "glogsp" /\ tpc = "reading" /\ rpc = "done"
    /\ LET k == args.frame_number
       IN  IF k >= Rows \/ k < -Rows THEN RaiseAfter(<<>>, "IndexError")
           ELSE Drawn(<<Trace("Scatter", <<>>, <<IF k < 0 THEN k + Rows ELSE k>>)>>)
    /\ UNCHANGED <<readerVars, envVars, tool, args, readFrom, image, opened>>

\* grlogsp: ys = data[start_frame_number : end_frame_number + 1]; one Scatter
\* trace per frame of ys
grlogsp_draw ==
    /\ tool = "grlogsp" /\ tpc = "reading" /\ rpc = "done"
    /\ LET ys == selected(args.start_frame_number, args.end_frame_number)
       IN  Drawn([i \in 1..Len(ys) |-> Trace("Scatter", <<>>, <<ys[i]>>)])
    /\ UNCHANGED <<readerVars, envVars, tool, args, readFrom, image, opened>>

gpolezero_draw_lenient ==
    /\ tool = "gpolezero" /\ tpc = "reading" /\ rpc = "done"
    /\ traces' = Append(traces, [type |-> "Scatter", s |-> 0, e |-> Rows,
                                 marker |-> markers[idx]])
    /\ idx' = idx + 1
    /\ tpc' = (IF idx + 1 > Len(in_files) THEN "drawn" ELSE "main")
    /\ UNCHANGED <<stderr, exit_status>>
    /\ UNCHANGED <<readerVars, envVars, tool, args, readFrom, image, opened>>

gpolezero_draw_no_exit ==
    /\ tool = "gpolezero" /\ tpc = "reading" /\ rpc = "done"
    /\ stderr' = (IF args.input_format \in {0, 1} THEN stderr
                  ELSE Append(stderr, print_error_message("gpolezero",
                                                          <<"Unexpected input format">>)))
    /\ traces' = Append(traces, [type |-> "Scatter", s |-> 0, e |-> Rows,
                                 marker |-> markers[idx]])
    /\ idx' = idx + 1
    /\ tpc' = (IF idx + 1 > Len(in_files) THEN "drawn" ELSE "main")
    /\ UNCHANGED <<exit_status>>
    /\ UNCHANGED <<readerVars, envVars, tool, args, readFrom, image, opened>>

gpolezero_draw_once ==
    /\ tool = "gpolezero" /\ tpc = "reading" /\ rpc = "done"
    /\ IF args.input_format \in {0, 1}
       THEN /\ traces' = Append(traces, [type |-> "Scatter", s |-> 0, e |-> Rows,
                                         marker |-> markers[idx]])
            /\ idx' = idx + 1
            /\ tpc' = "drawn"
            /\ UNCHANGED <<stderr, exit_status>>
       ELSE /\ stderr' = Append(stderr, print_error_message("gpolezero",
                                                            <<"Unexpected input format">>))
            /\ exit_status' = 1
            /\ tpc' = "exit"
            /\ UNCHANGED <<traces, idx>>
    /\ UNCHANGED <<readerVars, envVars, tool, args, readFrom, image, opened>>

\* gpolezero: the body of the loop after the read: the input format is
\* checked, a trace is added with the marker zip() paired with the file, and
\* the loop goes on to the next file
gpolezero_draw ==
    /\ tool = "gpolezero" /\ tpc = "reading" /\ rpc = "done"
    /\ IF args.input_format \in {0, 1}
       THEN /\ traces' = Append(traces, [type |-> "Scatter", s |-> 0, e |-> Rows,
                                         marker |-> markers[idx]])
            /\ idx' = idx + 1
            /\ tpc' = (IF idx + 1 > Len(in_files) THEN "drawn" ELSE "main")
            /\ UNCHANGED <<stderr, exit_status>>
       ELSE /\ stderr' = Append(stderr, print_error_message("gpolezero",
                                                            <<"Unexpected input format">>))
            /\ exit_status' = 1
            /\ tpc' = "exit"
            /\ UNCHANGED <<traces, idx>>
    /\ UNCHANGED <<readerVars, envVars, tool, args, readFrom, image, opened>>

\* fig.write_image(args.out_file, ...), the last statement of main()
main_write_image ==
    /\ tpc = "drawn"
    /\ image' = TRUE
    /\ exit_status' = 0
    /\ tpc' = "exit"
    /\ UNCHANGED <<readerVars, envVars, tool, args, idx, readFrom, traces, stderr, opened>>

ToolNext ==
    \/ main_read_stdin
    \/ main_cannot_open
    \/ main_read_binary
    \/ main_uncaught
    \/ gwave_draw
    \/ gseries_draw
    \/ gspecgram_draw
    \/ fdrw_draw
    \/ glogsp_draw
    \/ grlogsp_draw
    \/ gpolezero_draw
    \/ main_write_image
    \/ read_binary_open
    \/ read_binary_eof
    \/ read_binary_short
    \/ read_binary_record
    \/ read_binary_return
    \/ read_stdin_eof
    \/ read_stdin_short
    \/ read_stdin_record
    \/ read_stdin_return

ToolSpec == ToolInit /\ [][ToolNext]_vars

----------------------------------------------------------------------------
(* The tools from the command line on: main() calls get_arguments() first.  *)

\* parser.error(message): the usage line and '<prog>: error: <message>' on
\* standard error, exit status 2
parser_error(prog, message) == <<"usage: ", prog, ": error: ", message>>

\* args = get_arguments()
main_get_arguments ==
    /\ tpc = "parse"
    /\ LET r == get_arguments(tool, argv)
       IN  IF r.exc # ""
           THEN /\ stderr' = Append(stderr, Traceback(r.exc))
                /\ exit_status' = 1
                /\ tpc' = "exit"
                /\ UNCHANGED args
           ELSE IF r.err = ""
           THEN /\ args' = r.ns
                /\ tpc' = "main"
                /\ UNCHANGED <<stderr, exit_status>>
           ELSE /\ stderr' = Append(stderr, parser_error(tool, r.err))
                /\ exit_status' = 2
                /\ tpc' = "exit"
                /\ UNCHANGED args
    /\ UNCHANGED <<readerVars, envVars, tool, idx, readFrom, traces, image, opened>>

\* the data type flags tried: none, each one, and two after one another
DtypeFlags ==
    Maybe({<<Word("+", c)>> : c \in TypeCodes}
          \cup {<<Word("+", c1), Word("+", c2)>> : c1, c2 \in {"s", "f", "d"}})

\* no positional word, one, two, three
PositionalWords ==
    {<<>>, <<Word("", "o")>>, <<Word("", "a"), Word("", "o")>>,
     <<Word("", "a"), Word("", "o"), Word("", "b")>>}

\* the words tried after -M: lists of one to five integers, a list that
\* begins with a negative one, and a word that is no list of integers
MarginWords ==
    {List(<<5>>), List(<<1, 2>>), List(<<1, 2, 3>>), List(<<1, 2, 3, 4>>),
     List(<<1, 2, 3, 4, 5>>), List(<<-5>>), List(<<5, -3>>), List(<<-5, 3>>), Word("", "a")}

MarginArgvs ==
    Cat({<<Word("-", "M")>>},
        Cat({<<w>> : w \in MarginWords},
            Cat(Maybe({<<Word("-", "M"), List(<<7>>)>>}), Cat(Maybe(InFile), Maybe(OutFile)))))
    \cup {<<Word("-", "M")>>}

\* the command lines tried from the parser on
CliArgvs(t) ==
    CASE t \in DtypeTools ->
            Cat(DtypeFlags, PositionalWords)
            \cup MarginArgvs
            \cup {<<Word("-", "s")>>, <<Word("-", "s"), Word("", "a"), Word("", "o")>>,
                  <<Word("-", "q"), Word("", "o")>>}
      [] t = "fdrw" -> PositionalWords
      [] t \in {"glogsp", "grlogsp"} -> Cat(OptNum("l", {2}), PositionalWords)
      [] t = "gpolezero" ->
            Cat(Maybe(OptStr("z", {"a"})), Cat(Maybe(OptStr("p", {"b"})), PositionalWords))

CliInit ==
    /\ byteorder = "little"
    /\ tool \in Tools
    /\ argv \in CliArgvs(tool)
    /\ args = <<>>
    /\ fileKind \in {[p \in Paths |-> IF p = "a" THEN k ELSE "file"] :
                        k \in {"file", "missing", "dir"}}
    /\ fileBytes = [p \in Paths |-> IF fileKind[p] # "file" THEN <<>>
                                     ELSE IF p = "a" THEN TapePrefix(2, 33) ELSE ContentsB]
    /\ stdinBytes = TapePrefix(1, 17)
    /\ stdinPiped = TRUE
    /\ func = "none" /\ dtype = "d" /\ dim = 1 /\ filename = "None"
    /\ stream = <<>> /\ origin = NoOrigin
    /\ pos = 0 /\ data = <<>> /\ nreads = 0 /\ lastReq = 0 /\ lastGot = 0
    /\ dropped = <<>> /\ rpc = "idle" /\ result = NoArray /\ exc = "none"
    /\ tpc = "parse" /\ idx = 1
    /\ readFrom = <<>> /\ traces = <<>> /\ stderr = <<>>
    /\ exit_status = -1 /\ image = FALSE
    /\ opened = <<>>

CliNext ==
    \/ main_get_arguments
    \/ ToolNext

CliSpec == CliInit /\ [][CliNext]_vars

----------------------------------------------------------------------------
(* gseries on about 100000 samples, from the return of the reader on: the    *)
(* file holds that many zero bytes, read as one-byte integers.              *)

BulkSizes == {100000, 100001, 100002}

BulkArgvs ==
    Cat({<<Word("+", "c")>>},
    Cat(Maybe(OptNum("s", {1, 2})),
    Cat(Maybe(OptNum("e", {99999, 100000})),
    Cat(Maybe(OptNum("i", {2})), Cat(InFile, OutFile)))))

\* the record struct.unpack makes of a zero byte and the element asarray
\* makes of it
ZeroRecord == struct_unpack(sptk2struct("c").format_char, 1, "little", <<0>>)
ZeroElement == np_cast(sptk2numpy("c"), ZeroRecord[1])

\* read_binary("a", dtype="c") has read the n bytes of the file one by one,
\* met the end of the file at the read after the last and returned the array
BulkInit ==
    /\ byteorder = "little"
    /\ tool = "gseries"
    /\ argv \in BulkArgvs
    /\ args = get_arguments(tool, argv).ns
    /\ fileKind = [p \in Paths |-> "file"]
    /\ stdinBytes = <<>>
    /\ stdinPiped = FALSE
    /\ \E n \in BulkSizes :
          /\ fileBytes = [p \in Paths |-> IF p = "a" THEN [k \in 1..n |-> 0] ELSE <<>>]
          /\ stream = [k \in 1..n |-> 0]
          /\ pos = n /\ nreads = n + 1
          /\ data = [k \in 1..n |-> ZeroRecord]
          /\ result = [dtype |-> sptk2numpy("c"), shape |-> <<n>>,
                       flat |-> [k \in 1..n |-> ZeroElement]]
    /\ func = "read_binary" /\ dtype = "c" /\ dim = 1 /\ filename = "a"
    /\ origin = NoOrigin /\ lastReq = 1 /\ lastGot = 0
    /\ dropped = <<>> /\ rpc = "done" /\ exc = "none"
    /\ tpc = "reading" /\ idx = 1
    /\ readFrom = <<"a">> /\ opened = <<"a">>
    /\ traces = <<>> /\ stderr = <<>>
    /\ exit_status = -1 /\ image = FALSE

BulkNext ==
    \/ gseries_draw
    \/ main_write_image

BulkSpec == BulkInit /\ [][BulkNext]_vars

----------------------------------------------------------------------------
(* The reader's contract *)

\* the per-element byte width the specification gives each type code
ByteWidth(code) ==
    IF code \in {"c", "C"} THEN 1
    ELSE IF code \in {"s", "S"} THEN 2
    ELSE IF code \in {"i", "I", "f"} THEN 4
    ELSE 8

\* the scalar type each type code selects
ScalarType(code) ==
    CASE code = "c" -> "int8"    [] code = "C" -> "uint8"
      [] code = "s" -> "int16"   [] code = "S" -> "uint16"
      [] code = "i" -> "int32"   [] code = "I" -> "uint32"
      [] code = "l" -> "int64"   [] code = "L" -> "uint64"
      [] code = "f" -> "float32" [] code = "d" -> "float64"

\* the number of complete records of the stream
Complete == Len(stream) \div (ByteWidth(dtype) * dim)

\* scalar number n (0-based) of the stream
ScalarAt(n) ==
    struct_unpack1(sptk2struct(dtype).format_char, byteorder,
                   SubSeq(stream, n * ByteWidth(dtype) + 1, (n + 1) * ByteWidth(dtype)))

\* element j of record i of a decoded array (0-based)
Elem(a, i, j) == IF Len(a.shape) = 2 THEN a.flat[i * a.shape[2] + j + 1] ELSE a.flat[i + j + 1]

\* C1: for every type code and dim >= 1, a source of k*byte_width*dim + r bytes
\* with 0 <= r < byte_width*dim decodes to exactly k records: the r trailing
\* bytes are dropped.
C1_RecordCount ==
    (rpc = "done" /\ dim >= 1) =>
        /\ Len(result.shape) >= 1
        /\ result.shape[1] = Complete
        /\ Len(data) = Complete

C1_Witness ==
    /\ rpc = "done" /\ dtype = "d" /\ dim = 2 /\ Len(stream) = 17
    /\ result.shape = <<1, 2>>

\* C2: decoding keeps the stream's order and grouping: element j of record i is
\* scalar i*dim + j of the stream, nothing reordered, duplicated or skipped;
\* eight doubles 0..7 decode to 0..7 (dim = 1) and to (0,1),(2,3),(4,5),(6,7)
\* (dim = 2).
C2_OrderAndGrouping ==
    (rpc = "done" /\ dim >= 1) =>
        /\ Len(result.flat) = Complete * dim
        /\ Len(result.shape) = (IF dim = 1 THEN 1 ELSE 2)
        /\ \A i \in 0..(Complete - 1) : \A j \in 0..(dim - 1) :
              Elem(result, i, j) = ScalarAt(i * dim + j)
        /\ (stream = EightDoubles(byteorder) /\ dtype = "d" /\ dim = 1) =>
              /\ result.shape = <<8>>
              /\ result.flat = [n \in 1..8 |-> FloatOfNat(n - 1)]
        /\ (stream = EightDoubles(byteorder) /\ dtype = "d" /\ dim = 2) =>
              /\ result.shape = <<4, 2>>
              /\ \A i \in 0..3 :
                    SubSeq(result.flat, 2 * i + 1, 2 * i + 2)
                        = <<FloatOfNat(2 * i), FloatOfNat(2 * i + 1)>>

C2_Witness ==
    /\ rpc = "done" /\ stream = EightDoubles(byteorder) /\ dtype = "d" /\ dim = 2
    /\ result.shape = <<4, 2>>
    /\ Elem(result, 3, 1) = FloatOfNat(7)

\* C3: round trip: k tuples of dim scalars, packed by the inverse packing and
\* decoded with the same type code and dim, come back as the same k tuples in
\* the same order.
C3_RoundTrip ==
    (rpc = "done" /\ dim >= 1 /\ origin.packed /\ Len(origin.scalars) % dim = 0) =>
        /\ result.flat = origin.scalars
        /\ result.shape = (IF dim = 1 THEN <<Len(origin.scalars)>>
                           ELSE <<Len(origin.scalars) \div dim, dim>>)

C3_Witness ==
    /\ rpc = "done" /\ dim = 1 /\ origin.packed /\ dtype = "l" /\ byteorder = "little"
    /\ Len(origin.scalars) = 3 /\ origin.scalars[1].sign = 1
    /\ result.flat = origin.scalars

\* C4: an empty source raises nothing and decodes to a well-formed empty array:
\* flat and empty for dim = 1, zero rows of dim columns for dim >= 2.
C4_EmptySource ==
    /\ ((IF func = "read_binary" THEN fileBytes[filename] ELSE stdinBytes) = <<>>) =>
          (rpc # "raised" /\ exc = "none")
    /\ (rpc = "done" /\ stream = <<>> /\ dim >= 1) =>
          /\ result.dtype = ScalarType(dtype)
          /\ result.flat = <<>>
          /\ result.shape = (IF dim = 1 THEN <<0>> ELSE <<0, dim>>)

C4_Witness ==
    /\ rpc = "done" /\ func = "read_stdin" /\ stdinBytes = <<>> /\ dim = 2
    /\ result.shape = <<0, 2>>

\* C5: a read that returns a non-empty chunk shorter than byte_width*dim stops
\* the decoder without raising: the chunk is discarded, no further read is made
\* and exactly the records accumulated before it are returned; a read of zero
\* bytes stops it the same way with nothing discarded.
C5_ShortReadStops ==
    (rpc \in {"asarray", "done"} /\ dim >= 1) =>
        /\ exc = "none"
        /\ nreads = Len(data) + 1
        /\ lastGot < lastReq
        /\ Len(dropped) = lastGot
        /\ dropped = SubSeq(stream, Len(data) * lastReq + 1, Len(stream))
        /\ pos = Len(stream)
        /\ rpc = "done" =>
              /\ result.flat = Flatten(data)
              /\ Len(result.shape) >= 1 /\ result.shape[1] = Len(data)

C5_Witness ==
    /\ rpc = "done" /\ func = "read_stdin" /\ dim = 2
    /\ dropped # <<>> /\ Len(data) >= 1
    /\ result.shape[1] = Len(data)

\* C6: the decoded array is flat when dim <= 1 and otherwise rectangular, its
\* row count the number of complete records read and every row dim elements
\* long, all of the scalar type the type code selects.
C6_ArrayShape ==
    (rpc = "done") =>
        /\ result.dtype = ScalarType(dtype)
        /\ \A n \in 1..Len(result.flat) : InKind(ScalarType(dtype), result.flat[n])
        /\ IF dim <= 1
           THEN result.shape = <<Len(result.flat)>>
           ELSE /\ result.shape = <<Len(data), dim>>
                /\ Len(result.flat) = Len(data) * dim
                /\ Len(data) = Complete

C6_Witness ==
    /\ rpc = "done" /\ dim = 2 /\ dtype = "S"
    /\ result.shape = <<2, 2>> /\ Len(dropped) = 3

\* C7: the byte width used for every read comes from the static table and is 1
\* for c/C, 2 for s/S, 4 for i/I/f and 8 for l/L/d; each read asks for exactly
\* byte_width*dim bytes.
C7_ReadSize ==
    /\ \A code \in TypeCodes : sptk2struct(code).byte_size = ByteWidth(code)
    /\ (nreads > 0) => (lastReq = ByteWidth(dtype) * dim)

C7_Witness ==
    /\ nreads = 2 /\ dtype = "f" /\ dim = 2 /\ lastReq = 8 /\ Len(data) = 2

----------------------------------------------------------------------------
(* The tools' input handling *)

\* the input paths named on the command line
Named == {in_files[i] : i \in 1..Len(in_files)} \ {"None"}

CannotOpen(p) == print_error_message(tool, <<"Cannot open ", p>>)

\* the input the tool stopped at is the named path p
StoppedAt(p) ==
    /\ tpc = "exit"
    /\ idx <= Len(in_files)
    /\ in_files[idx] = p

C9_MissingRejected ==
    /\ \A p \in Paths :
          fileKind[p] = "missing" =>
              /\ \A i \in 1..Len(opened) : opened[i] # p
              /\ \A i \in 1..Len(readFrom) : readFrom[i] # p
    /\ \A p \in Paths :
          (StoppedAt(p) /\ fileKind[p] = "missing") =>
              /\ stderr = <<CannotOpen(p)>>
              /\ exit_status = 1
              /\ ~image
              /\ Len(readFrom) = idx - 1
    /\ image => \A p \in Named : fileKind[p] # "missing"

C9_Witness ==
    /\ tool = "gpolezero" /\ args.zero_file = "a" /\ args.pole_file = "b"
    /\ fileKind["a"] = "file" /\ fileKind["b"] = "missing"
    /\ tpc = "exit" /\ idx = 2
    /\ readFrom = <<"a">> /\ opened = <<"a">> /\ Len(traces) = 1
    /\ stderr = <<CannotOpen("b")>> /\ exit_status = 1 /\ ~image

\* C10: a named input path that exists but cannot be read (a directory, a
\* file without read permission) is reported like a missing one: the tool
\* that comes to it prints its tool-prefixed 'Cannot open' message and exits
\* with a non-zero status.
C10_UnreadableReported ==
    \A p \in Paths :
        (StoppedAt(p) /\ fileKind[p] \in {"dir", "noperm"}) =>
            /\ stderr = <<CannotOpen(p)>>
            /\ exit_status # 0
            /\ ~image

----------------------------------------------------------------------------
(* Errors and the order of the steps *)

UnexpectedFormat == print_error_message("gpolezero", <<"Unexpected input format">>)

\* C11: gpolezero with -q other than 0 or 1 never adds a trace, never writes
\* the image and ends with status 1; when its first input can be read (from
\* -z, -p or standard input, empty or not) what it reports is 'gpolezero:
\* Unexpected input format!', after reading that one input.
C11_BadFormatRejected ==
    (tool = "gpolezero" /\ args.input_format \notin {0, 1}) =>
        /\ traces = <<>> /\ ~image /\ exit_status # 0
        /\ tpc \in {"main", "reading", "exit"}
        /\ tpc = "exit" =>
              /\ exit_status = 1
              /\ (in_files[1] = "None" \/ fileKind[in_files[1]] = "file") =>
                    (stderr = <<UnexpectedFormat>> /\ readFrom = <<in_files[1]>> /\ idx = 1)

C11_Witness ==
    /\ tool = "gpolezero" /\ args.input_format = -1
    /\ args.zero_file = "None" /\ args.pole_file = "b"
    /\ tpc = "exit" /\ Len(data) = 1 /\ rpc = "done"
    /\ stderr = <<UnexpectedFormat>> /\ exit_status = 1 /\ ~image

\* the tool printed an error message of its own
ErrorReported == \E i \in 1..Len(stderr) : stderr[i][1] = tool

\* C12: the step that prints a tool-prefixed error message ends the process
\* with status 1 and without an image, and from then on nothing is opened or
\* read, no trace is added and no image is written.
C12_ErrorsFatal ==
    [][/\ ErrorReported' => (tpc' = "exit" /\ exit_status' = 1 /\ ~image')
       /\ ErrorReported => UNCHANGED <<readFrom, opened, nreads, pos, data, traces,
                                       image, exit_status, tpc>>]_vars

C12_Witness ==
    /\ tool = "gpolezero" /\ args.zero_file = "b" /\ args.pole_file = "a"
    /\ fileKind["a"] = "missing"
    /\ ErrorReported /\ stderr = <<CannotOpen("a")>>
    /\ readFrom = <<"b">> /\ Len(traces) = 1 /\ nreads = 2
    /\ tpc = "exit" /\ exit_status = 1 /\ ~image

\* nothing can make the run fail once its arguments are parsed
Succeeds ==
    /\ \A p \in Named : fileKind[p] = "file"
    /\ tool = "gpolezero" => args.input_format \in {0, 1}

\* C13 (as stated): in a run that succeeds no trace is added before all the
\* input has been read, and the image is written at the end with status 0.
C13_FixedOrder ==
    /\ (tool = "gpolezero" /\ Succeeds /\ traces # <<>>) =>
          (readFrom = in_files /\ rpc = "done")
    /\ (tool # "gpolezero" /\ traces # <<>>) => (readFrom = in_files /\ rpc = "done")
    /\ image => (tpc = "exit" /\ exit_status = 0)
    /\ (tpc = "exit" /\ exit_status = 0) => image

\* reader calls that returned
CompletedReads ==
    Len(readFrom) - (IF rpc \in {"open", "loop", "asarray", "raised"} THEN 1 ELSE 0)

C13_State ==
    /\ (tool # "gpolezero" /\ traces # <<>>) =>
          (readFrom = in_files /\ rpc = "done" /\ pos = Len(stream))
    /\ tool = "gpolezero" =>
          /\ Len(traces) <= CompletedReads
          /\ \A i \in 1..Len(traces) : traces[i].marker = markers[i]
    /\ image =>
          /\ tpc = "exit" /\ exit_status = 0 /\ stderr = <<>>
          /\ readFrom = in_files /\ rpc = "done" /\ pos = Len(stream)
          /\ tool = "gpolezero" => Len(traces) = Len(in_files)
    /\ exit_status = 0 => image

C13_Step ==
    /\ image' # image => (~image /\ tpc = "drawn" /\ tpc' = "exit" /\ exit_status' = 0)
    /\ image => UNCHANGED vars

\* C13 (amended): a trace is added only after the input it shows has been read
\* to its end, which for the tools with one input is all the input, while
\* gpolezero adds the trace of each file before it reads the next one; the
\* image is written once, after every input has been read and every trace
\* added, as the last step, and the exit status is 0 exactly then.
C13_Order == []C13_State /\ [][C13_Step]_vars

C13_Witness ==
    /\ tool = "gpolezero" /\ args.zero_file = "a" /\ args.pole_file = "b"
    /\ args.input_format = 1
    /\ readFrom = <<"a", "b">> /\ Len(traces) = 2
    /\ tpc = "exit" /\ image /\ exit_status = 0

----------------------------------------------------------------------------
(* The command line *)

\* the type flags among the words and the type the last of them names
TypeFlagsOf(ws) == SelectSeq(ws, LAMBDA w : w.lead = "+" /\ w.s \in TypeCodes)
ChosenType(ws) ==
    IF TypeFlagsOf(ws) = <<>> THEN "d" ELSE TypeFlagsOf(ws)[Len(TypeFlagsOf(ws))].s

\* C15: in gwave, gseries and gspecgram the reader decodes with the type of
\* the last type flag on the command line, and with 'd' when there is none,
\* always with dimension 1; the returned array has that type's elements; a
\* parser built without the type flags has dtype 'd' all the same.
C15_TypeByFlag ==
    /\ (tool \in DtypeTools /\ func # "none") =>
          /\ dtype = ChosenType(argv)
          /\ dim = 1
          /\ lastReq \in {0, ByteWidth(ChosenType(argv))}
          /\ rpc = "done" => result.dtype = sptk2numpy(ChosenType(argv))
    /\ (tool \in DtypeTools /\ tpc = "main") => args.dtype = ChosenType(argv)
    /\ parse_args(get_default_parser(FALSE), <<Word("", "o")>>).ns.dtype = "d"
    /\ parse_args(get_default_parser(FALSE), <<Word("", "a"), Word("", "o")>>).ns.dtype = "d"

C15_Witness ==
    /\ tool = "gwave"
    /\ argv = <<Word("+", "s"), Word("+", "f"), Word("", "a"), Word("", "o")>>
    /\ rpc = "done" /\ func = "read_binary"
    /\ dtype = "f" /\ dim = 1
    /\ result.dtype = "float32" /\ result.shape = <<8>>

\* the words argparse takes for positional arguments, for a command line
\* whose options are all known and have their values
OptionsScan ==
    parse_words(ParserOf(tool), argv, 1,
                [ns |-> ParserOf(tool).defaults, pos |-> <<>>, extras |-> <<>>, err |-> "", exc |-> ""])
WellFormedOptions ==
    OptionsScan.err = "" /\ OptionsScan.exc = "" /\ OptionsScan.extras = <<>>
PositionalWordsGiven == OptionsScan.pos

\* C16: with no positional word the tool ends with a usage error, a non-zero
\* status and nothing read or written; with one it is the output path and
\* the input is standard input (unless gpolezero's -z or -p names a file);
\* with two the first is the input path and the second the output path.
C16_PositionalBinding ==
    (tool \in Tools /\ tpc # "parse" /\ WellFormedOptions) =>
        /\ Len(PositionalWordsGiven) = 0 =>
              /\ tpc = "exit" /\ exit_status # 0 /\ stderr # <<>>
              /\ readFrom = <<>> /\ opened = <<>> /\ traces = <<>> /\ ~image
        /\ Len(PositionalWordsGiven) = 1 =>
              /\ exit_status # 2
              /\ args.out_file = PositionalWordsGiven[1].s
              /\ (in_files = <<"None">> /\ tpc # "main") =>
                    (readFrom = <<"None">> /\ opened = <<>> /\ func = "read_stdin")
        /\ Len(PositionalWordsGiven) = 2 =>
              /\ exit_status # 2
              /\ args.in_file = PositionalWordsGiven[1].s
              /\ args.out_file = PositionalWordsGiven[2].s
              /\ \A i \in 1..Len(readFrom) : readFrom[i] = PositionalWordsGiven[1].s

\* the same for the six tools that have the positional infile
C16_InfileTools == (tool # "gpolezero") => C16_PositionalBinding

----------------------------------------------------------------------------
(* The selection and the screens *)

SelectionTools == {"gwave", "gseries", "gspecgram", "grlogsp"}

\* the -s and -e of the tool
StartOf == IF tool = "grlogsp" THEN args.start_frame_number ELSE args.start_point
EndOf == IF tool = "grlogsp" THEN args.end_frame_number ELSE args.end_point

\* the screens of a finished figure partition the selection unless -n cuts them
WholeSelectionShown ==
    /\ tool \in SelectionTools
    /\ tpc = "drawn"
    /\ tool \in DtypeTools => args.num_samples = <<>>

RECURSIVE RowsOf(_)
\* the rows the traces show, in the order of the traces (gseries shows every
\* row as a bar and as a marker: the markers are taken)
RowsOf(ts) ==
    IF ts = <<>> THEN <<>>
    ELSE (IF Head(ts).type = "Bar" THEN <<>> ELSE Head(ts).y) \o RowsOf(Tail(ts))

\* the indices lo .. hi in ascending order
Ascending(lo, hi) == [k \in 1..(hi - lo + 1) |-> lo + k - 1]

\* C17 (as stated): for s >= 0 the rows shown are exactly the rows with the
\* indices s through e, for every integer e, and the rows from s to the last
\* when -e is omitted.
C17_InclusiveRange ==
    (WholeSelectionShown /\ StartOf >= 0) =>
        RowsOf(traces) =
            Ascending(StartOf, IF EndOf = <<>> THEN Rows - 1 ELSE Min(EndOf[1], Rows - 1))

\* C17 (amended): the rows shown are those of Python's slice
\* data[s : e + 1], in ascending order and each once.  For s >= 0 and
\* e >= -1 these are the rows with the indices s through e (those that
\* exist; none for e = -1) and with -e omitted the rows from s to the last;
\* a bound e <= -2 counts from the end, so the last row shown is row N + e,
\* and a negative s likewise makes row N + s (or row 0) the first.
C17_SliceSelection ==
    WholeSelectionShown =>
        LET N == Rows
            lo == IF StartOf >= 0 THEN StartOf ELSE Max(N + StartOf, 0)
            hi == IF EndOf = <<>> THEN N - 1
                  ELSE IF EndOf[1] >= -1 THEN Min(EndOf[1], N - 1)
                  ELSE N + EndOf[1]
        IN  /\ RowsOf(traces) = Ascending(lo, hi)
            /\ (0 <= StartOf /\ EndOf # <<>> /\ StartOf <= EndOf[1] /\ EndOf[1] < N) =>
                  Len(RowsOf(traces)) = EndOf[1] - StartOf + 1

C17_Witness ==
    /\ tool = "gwave" /\ tpc = "drawn" /\ Rows = 8
    /\ args.start_point = 1 /\ args.end_point = <<3>>
    /\ args.num_screens = 1 /\ args.num_samples = <<>>
    /\ Len(traces) = 1 /\ traces[1].y = <<1, 2, 3>>

\* one trace per screen (of gseries' two, the markers)
ScreensOf(ts) == SelectSeq(ts, LAMBDA t : t.type # "Bar")

\* C18: with -i m and no -n a finished figure of gwave, gseries or gspecgram
\* has m screens; each of the first m - 1 shows floor(N / m) of the N selected
\* samples, the last shows the rest, and the screens one after the other show
\* the selection from its first sample to its last, each sample once.
C18_ScreensPartition ==
    (tool \in DtypeTools /\ tpc = "drawn" /\ args.num_samples = <<>>) =>
        LET m == args.num_screens
            sc == ScreensOf(traces)
            sel == selected(args.start_point, args.end_point)
            N == Len(sel)
        IN  /\ m >= 1
            /\ Len(sc) = m
            /\ \A i \in 1..(m - 1) : Len(sc[i].y) = N \div m
            /\ Len(sc[m].y) = N - (m - 1) * (N \div m)
            /\ RowsOf(traces) = sel
            /\ \A i, j \in 1..m : \A k \in 1..Len(sc[i].y) : \A l \in 1..Len(sc[j].y) :
                  (sc[i].y[k] = sc[j].y[l]) => (i = j /\ k = l)
            /\ tool = "gseries" =>
                  \A i \in 1..m : traces[2 * i - 1].type = "Bar" /\ traces[2 * i - 1].y = sc[i].y

C18_Witness ==
    /\ tool = "gwave" /\ tpc = "drawn" /\ Rows = 8
    /\ args.start_point = 0 /\ args.end_point = <<>>
    /\ args.num_screens = 3 /\ args.num_samples = <<>>
    /\ Len(traces) = 3
    /\ traces[1].y = <<0, 1>> /\ traces[2].y = <<2, 3>> /\ traces[3].y = <<4, 5, 6, 7>>

\* C19: in a finished figure of gwave or gseries every x value is a numerator
\* over 1, or over sr * 1000 with -x sr.  Without -r the numerator of a sample
\* is start_point plus its index in the selection, so the first sample of a
\* screen comes one step after the last sample of the screen before; with -r
\* the numerators of every screen start again at start_point, the value of
\* the first selected sample.
C19_TimeSucceeds ==
    (tool \in {"gwave", "gseries"} /\ tpc = "drawn") =>
        LET sel == selected(args.start_point, args.end_point)
            sc == ScreensOf(traces)
        IN  /\ \A i \in 1..Len(traces) :
                  /\ traces[i].x.den = (IF args.sr = <<>> THEN 1 ELSE args.sr[1] * 1000)
                  /\ Len(traces[i].x.num) >= Len(traces[i].y)
                  /\ \A k \in 1..Len(traces[i].y) :
                        traces[i].x.num[k] =
                            IF args.reset THEN args.start_point + (k - 1)
                            ELSE args.start_point + (traces[i].y[k] - sel[1])
            /\ ~args.reset =>
                  \A i \in 1..(Len(sc) - 1) :
                      (sc[i].y # <<>> /\ sc[i + 1].y # <<>>) =>
                          sc[i + 1].x.num[1] = sc[i].x.num[Len(sc[i].y)] + 1
            /\ args.reset =>
                  \A i \in 1..Len(sc) : sc[i].y # <<>> => sc[i].x.num[1] = args.start_point

C19_Witness ==
    /\ tool = "gwave" /\ tpc = "drawn" /\ Rows = 8
    /\ args.start_point = 1 /\ args.end_point = <<>> /\ args.sr = <<16>>
    /\ args.num_screens = 2 /\ args.num_samples = <<>> /\ ~args.reset
    /\ traces[1].x = [num |-> <<1, 2, 3>>, den |-> 16000]
    /\ traces[2].x = [num |-> <<4, 5, 6, 7>>, den |-> 16000]
    /\ traces[2].y = <<4, 5, 6, 7>>

C19_ResetWitness ==
    /\ tool = "gseries" /\ tpc = "drawn" /\ Rows = 8
    /\ args.start_point = 1 /\ args.num_screens = 2 /\ args.reset
    /\ args.end_point = <<>> /\ args.num_samples = <<>>
    /\ traces[4].x.num = <<1, 2, 3, 4>> /\ traces[4].y = <<4, 5, 6, 7>>

\* C20: in a finished figure of gspecgram without -r the offset added to the
\* times of a screen is the last time shown on the screen before it, so the
\* times shown never go back from one screen to the next, for any number of
\* screens; with -r the offset of every screen is 0.
C20_SpectrogramTimeSucceeds ==
    (tool = "gspecgram" /\ tpc = "drawn") =>
        /\ traces[1].bias = 0
        /\ \A i \in 2..Len(traces) :
              IF args.reset THEN traces[i].bias = 0
              ELSE /\ traces[i].bias = traces[i - 1].x.num[Len(traces[i - 1].x.num)]
                   /\ traces[i - 1].x.num[Len(traces[i - 1].x.num)] <= traces[i].x.num[1]

\* the same for figures of one or two screens
C20_UpToTwoScreens == (tool = "gspecgram" /\ args.num_screens <= 2) => C20_SpectrogramTimeSucceeds

----------------------------------------------------------------------------
(* The warning of gseries *)

TooManyWarning ==
    print_warn_message("gseries", <<"Too many data points. This takes a long time.">>)

Warned == \E i \in 1..Len(stderr) : stderr[i] = TooManyWarning

\* once the selection is made: the warning is on standard error exactly when
\* more than 100000 samples are selected, and nothing else is; the traces
\* are the two of every screen and show the whole selection; the run has
\* not failed, and at its end the image is written and the status is 0
C14_State ==
    (tool = "gseries" /\ tpc \in {"drawn", "exit"}) =>
        LET sel == selected(args.start_point, args.end_point)
        IN  /\ Len(sel) > 0
            /\ Warned <=> Len(sel) > 100000
            /\ stderr = (IF Len(sel) > 100000 THEN <<TooManyWarning>> ELSE <<>>)
            /\ Len(traces) = 2 * args.num_screens
            /\ RowsOf(traces) = sel
            /\ exit_status = (IF tpc = "exit" THEN 0 ELSE -1)
            /\ image <=> tpc = "exit"

\* the step after the warning writes the image of the traces drawn with it
C14_Step ==
    (tool = "gseries" /\ Warned) =>
        (tpc = "drawn" /\ tpc' = "exit" /\ image' /\ exit_status' = 0
         /\ UNCHANGED <<traces, stderr>>)

\* C14: the 'too many data points' warning of gseries is issued exactly when
\* more than 100000 samples are selected and is not fatal: the traces drawn
\* are those of the selection as without it, the next step writes the image
\* and the run ends with status 0.
C14_WarningNotFatal == []C14_State /\ [][C14_Step]_vars

C14_Witness ==
    /\ tool = "gseries" /\ Rows = 100002
    /\ args.start_point = 1 /\ args.end_point = <<>> /\ args.num_screens = 2
    /\ tpc = "exit" /\ image /\ exit_status = 0
    /\ stderr = <<TooManyWarning>>
    /\ Len(traces) = 4
    /\ Len(traces[1].y) = 50000 /\ Len(traces[4].y) = 50001
    /\ traces[4].y[50001] = 100001

----------------------------------------------------------------------------
(* The graphs of fdrw, the frame of glogsp *)

\* C21: in a finished figure of fdrw with -n n, n > 0, on N samples there are
\* ceil(N / n) graphs and graph i (from 0) shows the samples with the
\* indices i * n up to (i + 1) * n (as far as there are samples), with
\* z * i added to every value; with -n omitted or n <= 0 there is one graph
\* of all N samples with nothing added.
C21_Graphs ==
    (tool = "fdrw" /\ tpc = "drawn") =>
        LET N == Rows
            n == IF args.num_samples = <<>> THEN 0 ELSE args.num_samples[1]
        IN  IF n > 0
            THEN /\ Len(traces) * n >= N /\ (Len(traces) - 1) * n < N
                 /\ \A i \in 0..(Len(traces) - 1) :
                       /\ traces[i + 1].y = Ascending(i * n, Min((i + 1) * n, N) - 1)
                       /\ traces[i + 1].add = args.bias * i
            ELSE /\ Len(traces) = 1
                 /\ traces[1].y = Ascending(0, N - 1)
                 /\ traces[1].add = 0

C21_Witness ==
    /\ tool = "fdrw" /\ tpc = "drawn" /\ Rows = 8
    /\ args.num_samples = <<3>> /\ args.bias = 2
    /\ Len(traces) = 3
    /\ traces[1].y = <<0, 1, 2>> /\ traces[1].add = 0
    /\ traces[2].y = <<3, 4, 5>> /\ traces[2].add = 2
    /\ traces[3].y = <<6, 7>> /\ traces[3].add = 4

\* what glogsp has decoded: the reader was given dim = L div 2 + 1 and asked
\* for that many doubles at every read, and the array has rows of dim values
DecodedFrames ==
    /\ func # "none" =>
          /\ dim = args.frame_length \div 2 + 1
          /\ dtype = "d"
          /\ lastReq \in {0, 8 * dim}
    /\ (rpc = "done" /\ dim >= 2) => result.shape = <<Len(data), dim>>

\* C22 (as stated): glogsp decodes records of L div 2 + 1 values, its figure
\* shows the record with the index s and no other, and it writes an image
\* only when 0 <= s < number of complete records.
C22_FrameInRange ==
    (tool = "glogsp") =>
        /\ DecodedFrames
        /\ tpc = "drawn" => traces = <<Trace("Scatter", <<>>, <<args.frame_number>>)>>
        /\ image => (0 <= args.frame_number /\ args.frame_number < Rows)

\* C22 (amended): glogsp decodes records of L div 2 + 1 values and its figure
\* shows one record and no other: for 0 <= s < N the record with the index s,
\* and for -N <= s < 0, which Python counts from the end, the record N + s;
\* it writes an image only when -N <= s < N, N the number of complete
\* records, and for any other s it ends with an exception and no image.
C22_FrameSelected ==
    (tool = "glogsp") =>
        LET N == Rows
            k == args.frame_number
        IN  /\ DecodedFrames
            /\ tpc = "drawn" =>
                  traces = <<Trace("Scatter", <<>>, <<IF k >= 0 THEN k ELSE N + k>>)>>
            /\ (tpc = "drawn" \/ image) => (-N <= k /\ k < N)
            /\ (tpc = "exit" /\ rpc = "done" /\ ~(-N <= k /\ k < N)) =>
                  (~image /\ exit_status = 1 /\ traces = <<>>
                   /\ stderr = <<Traceback("IndexError")>>)
            /\ (tpc = "exit" /\ rpc = "done" /\ -N <= k /\ k < N) => (image /\ exit_status = 0)

C22_Witness ==
    /\ tool = "glogsp" /\ args.frame_length = 2 /\ args.frame_number = 1
    /\ dim = 2 /\ Rows = 4
    /\ tpc = "exit" /\ image /\ exit_status = 0
    /\ traces = <<Trace("Scatter", <<>>, <<1>>)>>

----------------------------------------------------------------------------
(* The margin *)

\* the words that follow a -M on the command line, in their order
MarginWordsGiven ==
    LET at == {i \in 1..(Len(argv) - 1) : argv[i] = Word("-", "M")}
        RECURSIVE upto(_)
        upto(i) == IF i <= 0 THEN <<>>
                   ELSE IF i \in at THEN Append(upto(i - 1), argv[i + 1]) ELSE upto(i - 1)
    IN  upto(Len(argv) - 1)

\* no -M is the last word of the command line
ValueAfterEveryM == argv = <<>> \/ argv[Len(argv)] # Word("-", "M")

\* a word of the command line is a path: it has no prefix character and does
\* not follow a -M
PathGiven ==
    \E i \in 1..Len(argv) :
        /\ argv[i].lead = "" /\ argv[i].num = <<>> /\ ~("list" \in DOMAIN argv[i])
        /\ (i = 1 \/ argv[i - 1] # Word("-", "M"))

\* the integers of a word, none for a word that is no list of integers
IntegersOf(w) == IF "list" \in DOMAIN w THEN w.list ELSE <<>>

\* the margins the claim gives to a list of integers
MarginByCount(v) ==
    CASE Len(v) = 1 -> [l |-> v[1], r |-> v[1], t |-> v[1], b |-> v[1]]
      [] Len(v) = 2 -> [l |-> v[1], r |-> v[1], t |-> v[2], b |-> v[2]]
      [] Len(v) = 4 -> [l |-> v[1], r |-> v[2], t |-> v[3], b |-> v[4]]

TakenCount(w) == Len(IntegersOf(w)) \in {1, 2, 4}
AllTaken == \A i \in 1..Len(MarginWordsGiven) : TakenCount(MarginWordsGiven[i])
LastMargin == MarginWordsGiven[Len(MarginWordsGiven)]

\* the tool has ended at the command line: nothing read, drawn or written
EndedAtCommandLine ==
    /\ tpc = "exit" /\ exit_status # 0 /\ ~image
    /\ func = "none" /\ readFrom = <<>> /\ opened = <<>> /\ traces = <<>>

TakenForOption(w) == w.lead = "-" /\ w.num = <<>>

----------------------------------------------------------------------------
(* The markers of gpolezero *)

\* the place in the figure of the trace of the -p file: the trace of the -z
\* file, if there is one, is the first
PoleTrace == IF args.zero_file # "None" THEN 2 ELSE 1

\* C24: in gpolezero the roots read from the file of -p are drawn with the
\* pole marker (x-thin) and the roots read from the file of -z with the zero
\* marker (circle-open), whether both options are given, only -z or only -p.
C24_MarkerByOption ==
    (tool = "gpolezero") =>
        /\ (args.zero_file # "None" /\ Len(traces) >= 1) =>
              (readFrom[1] = args.zero_file /\ traces[1].marker = "circle-open")
        /\ (args.pole_file # "None" /\ Len(traces) >= PoleTrace) =>
              (readFrom[PoleTrace] = args.pole_file /\ traces[PoleTrace].marker = "x-thin")

\* with -z, alone or with -p, the markers are as documented
C24_WithZeros == (tool = "gpolezero" /\ args.zero_file # "None") => C24_MarkerByOption

----------------------------------------------------------------------------
(* The lengths of x and y *)

LengthTools == {"gwave", "gseries", "fdrw"}

\* the x values of a trace
XOf(t) == IF tool = "fdrw" THEN t.x ELSE t.x.num

ScreenOf(i) == IF tool = "gseries" THEN (i - 1) \div 2 ELSE i - 1

----------------------------------------------------------------------------
(* The end of the read loop *)

\* the reads made so far are within the bound; while the loop runs every
\* read has appended a record, and the read after the last complete record,
\* which is read number floor(len / (byte_width*dim)) + 1, has ended it
C26_State ==
    (dim >= 1) =>
        /\ nreads <= Complete + 1
        /\ rpc = "loop" => (nreads = Len(data) /\ nreads <= Complete /\ pos = nreads * lastReq)
        /\ nreads = Complete + 1 => rpc \in {"asarray", "done"}

\* every step of the loop is a read; a read asks for byte_width*dim > 0
\* bytes, and either takes that many and appends one record, the loop going
\* on, or ends the loop
C26_Step ==
    (dim >= 1) =>
        /\ rpc = "loop" => nreads' = nreads + 1
        /\ nreads' # nreads =>
              /\ rpc = "loop"
              /\ nreads' = nreads + 1
              /\ lastReq' = ByteWidth(dtype) * dim /\ lastReq' > 0
              /\ \/ /\ pos' = pos + lastReq'
                    /\ Len(data') = Len(data) + 1
                    /\ SubSeq(data', 1, Len(data)) = data
                    /\ rpc' = "loop"
                 \/ /\ rpc' = "asarray"
                    /\ data' = data

\* C26: for every finite byte source and every dim >= 1 the read loop ends:
\* every iteration is a read that either consumes byte_width*dim > 0 bytes
\* and appends one record or stops the loop, and the loop has stopped by
\* read number floor(len / (byte_width*dim)) + 1.
C26_LoopEnds == []C26_State /\ [][C26_Step]_vars

C26_Witness ==
    /\ rpc = "done" /\ func = "read_binary" /\ dim = 2 /\ dtype = "s"
    /\ Len(stream) = 9 /\ nreads = 3 /\ Len(data) = 2

----------------------------------------------------------------------------
(* The two readers *)

\* what the bytes bs hold for a type code and a dim, whoever reads them: the
\* complete records in their order, and the array of them
RecordsIn(bs, code, d) ==
    LET req == ByteWidth(code) * d
        k == IF d = 0 THEN 0 ELSE Len(bs) \div req
    IN  [i \in 1..k |-> struct_unpack(sptk2struct(code).format_char, d, byteorder,
                                      SubSeq(bs, (i - 1) * req + 1, i * req))]
ArrayOf(bs, code, d) == asarray(RecordsIn(bs, code, d), d, code)

\* C27: read_binary and read_stdin are equivalent: for the same bytes, type
\* code and dim they return equal arrays (same records, same order, same
\* shape), empty and truncated content included: what either returns is the
\* one array its bytes, type code and dim determine.
C27_ReadersAgree ==
    (func \in {"read_binary", "read_stdin"} /\ rpc = "done") =>
        /\ stream = (IF func = "read_binary" THEN fileBytes[filename] ELSE stdinBytes)
        /\ data = RecordsIn(stream, dtype, dim)
        /\ result = ArrayOf(stream, dtype, dim)
        /\ exc = "none"

C27_Witness ==
    /\ func = "read_stdin" /\ rpc = "done" /\ dtype = "S" /\ dim = 2
    /\ Len(stdinBytes) = 11 /\ dropped # <<>>
    /\ result = ArrayOf(stdinBytes, "S", 2)
    /\ result.shape = <<2, 2>>

----------------------------------------------------------------------------
(* The two type tables *)

\* the type codes a command line or a default can hand to a reader: the
\* const of every type flag, the parser's default, the readers' default
ProducibleCodes ==
    {o.const : o \in {q \in get_default_parser(TRUE).options : q.dest = "dtype"}}
    \cup {get_default_parser(TRUE).defaults.dtype, get_default_parser(FALSE).defaults.dtype}
    \cup {"d"}

\* C28: the two static type tables are consistent: they have the same keys,
\* every type code a flag or a default can produce is a key, and for every
\* key the byte width read equals the byte width of the array's numeric
\* kind, with the same signedness and the same integer or float kind; so a
\* lookup never fails and the array holds the decoded values unchanged.
C28_TablesConsistent ==
    /\ sptk2numpy_keys = sptk2struct_keys
    /\ ProducibleCodes \subseteq sptk2struct_keys
    /\ \A code \in sptk2struct_keys :
          LET fmt == sptk2struct(code).format_char
              kind == sptk2numpy(code)
          IN  /\ sptk2struct(code).byte_size * 8 = KindBits(kind)
              /\ sptk2struct(code).byte_size = struct_calcsize(fmt)
              /\ IsFloatFormat(fmt) <=> ~IsIntKind(kind)
              /\ IsSignedFormat(fmt) <=> IsSignedKind(kind)
    /\ (func \in {"read_binary", "read_stdin"}) => dtype \in sptk2struct_keys
    /\ (func \in {"read_binary", "read_stdin"} /\ rpc = "done") =>
          /\ exc = "none"
          /\ result.dtype = sptk2numpy(dtype)
          /\ result.flat = Flatten(data)
          /\ \A i \in 1..Len(result.flat) : InKind(result.dtype, result.flat[i])

C28_Witness ==
    /\ func = "read_binary" /\ rpc = "done" /\ dtype = "C" /\ dim = 1
    /\ result.dtype = "uint8" /\ Len(result.flat) >= 3
    /\ \E i \in 1..Len(result.flat) :
          result.flat[i].sign = 0 /\ Len(result.flat[i].m) = 8

====
